---------------------------- MODULE Spec2Model ----------------------------
(***************************************************************************)
(* Position ingestion, geofence transition detection and rule based        *)
(* alerting of the equipment tracker: GpsTrackingService, AlertService and *)
(* AppService (src/src/services).                                          *)
(*                                                                         *)
(* Coordinates.  Positions live in a local tangent frame whose origin is   *)
(* the centre of the "Main Warehouse" sample geofence (37.7749,-122.4194). *)
(* x grows to the east, y to the north, one unit is half a metre           *)
(* (UnitsPerMeter).  Inside the few kilometres the model uses, the         *)
(* Haversine distance of the code equals the Euclidean distance of this    *)
(* frame to well below one unit, and comparing latitudes / longitudes      *)
(* equals comparing y / x.  Distances are compared through their squares.  *)
(*                                                                         *)
(* Time.  Timestamps and the wall clock are whole seconds.  The local time *)
(* of day of a timestamp t is (t \div 60) % 1440 minutes.                  *)
(*                                                                         *)
(* Asynchrony.  Every `await` of the code ends a step; the continuation is *)
(* appended to the FIFO microtask queue `microtasks`, exactly as the       *)
(* JavaScript job queue does for promises that are already settled (the    *)
(* code awaits nothing but in-memory work).  RunMicrotask runs the head of *)
(* the queue up to its next await.                                         *)
(***************************************************************************)
EXTENDS Integers, Sequences, FiniteSets, TLC

(***************************************************************************)
(* Bounds of the model                                                     *)
(***************************************************************************)
MaxCalls == 3
MaxOps == 2
MaxRuleCalls == 2
MaxTicks == 1
MaxSweeps == 7
MaxSweepCalls == 2
MaxLog == 3
MaxAlertCalls == 1
MaxAlertLog == 1
MaxGeofenceCalls == 2
MaxOverlappingCalls == 2
MaxRecorded == 102
MaxBulk == 1
MaxBulkItems == 3
MaxFlagCalls == 2
MaxLimited == 5
MaxCreated == 3
MaxAnalyses == 1
MaxSimulationCalls == 1
MaxRoute == 2
MaxSimulationLog == 2

(***************************************************************************)
(* Program constants                                                       *)
(***************************************************************************)
UnitsPerMeter == 2
DuplicateDistanceMeters == 1
DuplicateWindowSeconds == 10
SimplifiedDistance == 100
DefaultMaxSpeed == 25
DefaultMinAccuracy == 10
MinutesPerDay == 1440
SecondsPerMinute == 60
SweepIntervalSeconds == 300
InactiveThresholdSeconds == 1800
DefaultMaxHistorySize == 100
windowSeconds == 1
maxRequests == 2
AnalysisPageLimit == 1000
SimulationIntervalSeconds == 5

(***************************************************************************)
(* Optional values: <<>> is undefined, <<v>> is the value v.               *)
(***************************************************************************)
None == <<>>
Some(v) == <<v>>
IsSome(o) == Len(o) > 0
Val(o) == o[1]

(***************************************************************************)
(* Geometry (distance-calculator.ts, GpsTrackingService.calculateDistance) *)
(***************************************************************************)
\* squared distance of two positions, in square units
DistSq(x1, y1, x2, y2) == (x1 - x2) * (x1 - x2) + (y1 - y2) * (y1 - y2)

\* distance < m metres
DistLessThanMeters(x1, y1, x2, y2, m) ==
    DistSq(x1, y1, x2, y2) < (m * UnitsPerMeter) * (m * UnitsPerMeter)

\* radius r is in units
isPointInCircle(px, py, cx, cy, r) == DistSq(px, py, cx, cy) <= r * r

isPointInBounds(px, py, neX, neY, swX, swY) ==
    /\ py >= swY
    /\ py <= neY
    /\ px >= swX
    /\ px <= neX

(***************************************************************************)
(* Time strings.  A string is a sequence of one-character strings; the     *)
(* code parses "HH:MM" with split(':').map(Number).                        *)
(***************************************************************************)
Digits == {"0", "1", "2", "3", "4", "5", "6", "7", "8", "9"}

DigitVal(c) ==
    CASE c = "0" -> 0 [] c = "1" -> 1 [] c = "2" -> 2 [] c = "3" -> 3
      [] c = "4" -> 4 [] c = "5" -> 5 [] c = "6" -> 6 [] c = "7" -> 7
      [] c = "8" -> 8 [] c = "9" -> 9

\* String.prototype.split(':'): the parts between the colons
RECURSIVE SplitFrom(_, _, _)
SplitFrom(s, i, cur) ==
    IF i > Len(s) THEN <<cur>>
    ELSE IF s[i] = ":" THEN <<cur>> \o SplitFrom(s, i + 1, <<>>)
    ELSE SplitFrom(s, i + 1, Append(cur, s[i]))

Split(s) == SplitFrom(s, 1, <<>>)

RECURSIVE Decimal(_, _)
Decimal(part, n) ==
    IF n = 0 THEN 0 ELSE 10 * Decimal(part, n - 1) + DigitVal(part[n])

\* Number(part): None is NaN; Number("") is 0
NumberOf(part) ==
    IF \A i \in 1..Len(part) : part[i] \in Digits
    THEN Some(Decimal(part, Len(part)))
    ELSE None

\* split(':').map(Number)
TimeParts(s) == [i \in 1..Len(Split(s)) |-> NumberOf(Split(s)[i])]

\* the validity test of evaluateRule on the parts of start and end
PartsInvalid(sp, ep) ==
    \/ Len(sp) < 2
    \/ Len(ep) < 2
    \/ ~IsSome(sp[1])
    \/ ~IsSome(sp[2])
    \/ ~IsSome(ep[1])
    \/ ~IsSome(ep[2])

MinutesOf(parts) == Val(parts[1]) * 60 + Val(parts[2])

\* getHours() * 60 + getMinutes() of a timestamp
CurrentTime(ts) == (ts \div SecondsPerMinute) % MinutesPerDay

(***************************************************************************)
(* State                                                                   *)
(***************************************************************************)
VARIABLES
    initialized,      \* AppService.initialized
    now,              \* the wall clock (new Date()), in seconds
    equipmentStore,   \* EquipmentRepository: the ids of the existing equipment
    positionStore,    \* PositionRepository: the stored records, in creation order
    trackingStates,   \* GpsTrackingService.trackingStates
    statisticsStore,  \* GpsTrackingService.statisticsStore (the counters)
    emitted,          \* events emitted by GpsTrackingService, in order
    alerts,           \* AlertService.alerts (a Map: insertion order)
    alertIdCounter,   \* AlertService.alertIdCounter
    geofences,        \* AlertService.geofences (a Map: insertion order)
    geofenceIdCounter,\* AlertService.geofenceIdCounter
    monitoringRules,  \* AlertService.monitoringRules (a Map: insertion order)
    lastPositions,    \* AlertService.lastPositions
    microtasks,       \* the job queue: continuations of suspended async functions
    calls,            \* history: the AppService.processPositionUpdate calls made
    evaluations,      \* history: the evaluateRule invocations made
    opCount,          \* history: number of configuration operations made
    tickCount,        \* history: number of clock advances made
    nextSweep,        \* when the interval timer of startPeriodicMonitoring fires next
    sweeps,           \* history: the checkInactiveEquipment runs made
    opLog,            \* history: the other requests made, with their results
    equipmentModel,   \* an Equipment object: positionHistory and lastPosition
    recorded,         \* history: the positions passed to its recordPosition
    bulk,             \* the bulkCreate request being served, with its locals
    responses,        \* history: the responses of bulkCreate
    userRequests,     \* createUserRateLimit: user id -> {count, resetTime}
    limited,          \* history: what the rate limit did with each request
    analyses,         \* history: the results of getEquipmentMovementAnalysis
    simulationInterval, \* TrackingState.simulationInterval: the timer's handle
    routeIndex,       \* TrackingState.routeIndex
    timers,           \* the intervals set and not cleared, with what they close over
    timerIdCounter,   \* the handle setInterval returns next
    submitted,        \* history: the waypoints the timers passed to processPositionUpdate
    completed         \* history: the timers that found their route finished

vars == <<initialized, now, equipmentStore, positionStore, trackingStates,
          statisticsStore, emitted, alerts, alertIdCounter, geofences,
          geofenceIdCounter, monitoringRules, lastPositions, microtasks,
          calls, evaluations, opCount, tickCount, nextSweep, sweeps, opLog,
          equipmentModel, recorded, bulk, responses, userRequests, limited,
          analyses, simulationInterval, routeIndex, timers, timerIdCounter,
          submitted, completed>>

\* the ids of EquipmentRepository.initializeWithSampleData, and one unknown id
Users == {"user-1", "user-2"}

SampleEquipment == {"FORKLIFT-001", "CRANE-001", "BULLDOZER-001"}
AllEquipment == SampleEquipment \cup {"UNKNOWN-001"}

Position(x, y, accuracy, timestamp) ==
    [x |-> x, y |-> y, accuracy |-> accuracy, timestamp |-> timestamp]

\* PositionRepository.initializeWithSampleData: three records, 5, 4 and 3
\* minutes old (accuracy in units, like the coordinates)
SamplePositions ==
    << [equipmentId |-> "FORKLIFT-001", position |-> Position(0, 0, 5, -300)],
       [equipmentId |-> "FORKLIFT-001", position |-> Position(-18, 22, 4, -240)],
       [equipmentId |-> "CRANE-001", position |-> Position(1758, 2202, 3, -180)] >>

(***************************************************************************)
(* Geofences.  kind is the type tag; a circle uses cx, cy, radius, a       *)
(* rectangle neX, neY, swX, swY (all in units), a polygon vertices (a      *)
(* sequence of points [x, y]).                                             *)
(***************************************************************************)
Circle(name, cx, cy, r, active) ==
    [name |-> name, type |-> "circle", active |-> active,
     cx |-> cx, cy |-> cy, radius |-> r, neX |-> 0, neY |-> 0, swX |-> 0, swY |-> 0,
     vertices |-> <<>>]

Rectangle(name, neX, neY, swX, swY, active) ==
    [name |-> name, type |-> "rectangle", active |-> active,
     cx |-> 0, cy |-> 0, radius |-> 0, neX |-> neX, neY |-> neY, swX |-> swX, swY |-> swY,
     vertices |-> <<>>]

Polygon(name, vertices, active) ==
    [name |-> name, type |-> "polygon", active |-> active,
     cx |-> 0, cy |-> 0, radius |-> 0, neX |-> 0, neY |-> 0, swX |-> 0, swY |-> 0,
     vertices |-> vertices]

\* AppService.setupSampleGeofences: a circle of 500 m around the origin and the
\* rectangle (37.78,-122.4144)-(37.785,-122.4094), 439..879 m east and
\* 567..1123 m north of it
MainWarehouse == Circle("Main Warehouse", 0, 0, 500 * UnitsPerMeter, TRUE)
ConstructionSiteA == Rectangle("Construction Site A", 1758, 2246, 879, 1134, TRUE)

WithId(gf, n) == gf @@ [id |-> n]

\* AlertService.isPositionInGeofence
isPositionInGeofence(position, geofence) ==
    CASE geofence.type = "circle" ->
           isPointInCircle(position.x, position.y, geofence.cx, geofence.cy, geofence.radius)
      [] geofence.type = "rectangle" ->
           isPointInBounds(position.x, position.y, geofence.neX, geofence.neY,
                           geofence.swX, geofence.swY)
      [] geofence.type = "polygon" -> FALSE
      [] OTHER -> FALSE

\* GeofenceController.isPointInPolygon: ray casting with x the latitude and
\* y the longitude; `inside` is toggled once for every edge (j, i) that
\* passes the test, j the vertex before i.  The quotient is compared after
\* multiplying through by yj - yi, which is not 0 when the first test holds.
isPointInPolygon(lat, lng, vertices) ==
    LET n == Len(vertices)
        toggles(i) ==
            LET j == IF i = 1 THEN n ELSE i - 1
                xi == vertices[i].y
                yi == vertices[i].x
                xj == vertices[j].y
                yj == vertices[j].x
            IN  /\ (yi > lng) # (yj > lng)
                /\ IF yj - yi > 0
                   THEN (lat - xi) * (yj - yi) < (xj - xi) * (lng - yi)
                   ELSE (lat - xi) * (yj - yi) > (xj - xi) * (lng - yi)
    IN  Cardinality({i \in 1..n : toggles(i)}) % 2 = 1

\* GeofenceController.isPositionInGeofence, which testPosition reports
controllerIsPositionInGeofence(latitude, longitude, geofence) ==
    CASE geofence.type = "circle" ->
           /\ geofence.radius # 0
           /\ isPointInCircle(longitude, latitude, geofence.cx, geofence.cy, geofence.radius)
      [] geofence.type = "rectangle" ->
           isPointInBounds(longitude, latitude, geofence.neX, geofence.neY,
                           geofence.swX, geofence.swY)
      [] geofence.type = "polygon" ->
           isPointInPolygon(latitude, longitude, geofence.vertices)
      [] OTHER -> FALSE

(***************************************************************************)
(* Monitoring rules.  Absent conditions are None.                          *)
(***************************************************************************)
Rule(id, equipmentId, maxSpeed, minAccuracy, operatingHours, alertType, severity) ==
    [id |-> id, equipmentId |-> equipmentId, maxSpeed |-> maxSpeed,
     minAccuracy |-> minAccuracy, operatingHours |-> operatingHours,
     alertType |-> alertType, severity |-> severity, enabled |-> TRUE,
     geofenceIds |-> {}]

\* a rule with conditions.geofenceIds
Scoped(rule, geofenceIds) == [rule EXCEPT !.geofenceIds = geofenceIds]

\* AlertService.addDefaultMonitoringRules
DefaultSpeedLimit ==
    Rule("default_speed_limit", None, Some(DefaultMaxSpeed), None, None, "speed_limit", "high")
DefaultAccuracy ==
    Rule("default_accuracy", None, None, Some(DefaultMinAccuracy * UnitsPerMeter), None,
         "connection_lost", "medium")

(***************************************************************************)
(* Continuations.  k names the await the function is suspended at, c is    *)
(* the call (index into calls) it works for, origin tells the run started  *)
(* by the 'positionUpdate' listener from the one started directly by       *)
(* AppService.processPositionUpdate; last, list, i, stage and flag are the *)
(* local variables that are live across the await.                         *)
(***************************************************************************)
Task(k, c, origin, last, list, i, stage, flag) ==
    [k |-> k, c |-> c, origin |-> origin, last |-> last, list |-> list,
     i |-> i, stage |-> stage, flag |-> flag]

SimpleTask(k, c, flag) == Task(k, c, "direct", None, <<>>, 0, "", flag)

\* The part of the state the AlertService methods work on, as a record, so
\* that the synchronous runs of several methods within one step compose.
AlertState ==
    [alerts |-> alerts, alertIdCounter |-> alertIdCounter,
     lastPositions |-> lastPositions, microtasks |-> Tail(microtasks),
     evaluations |-> evaluations]

Enqueue(S, t) == [S EXCEPT !.microtasks = Append(@, t)]

\* a createAlert that does not advance the id counter
createAlert_SameId(S, alertData) ==
    [S EXCEPT !.alerts = Append(@, alertData @@ [id |-> S.alertIdCounter,
                                                timestamp |-> now,
                                                acknowledged |-> FALSE,
                                                acknowledgedBy |-> None,
                                                acknowledgedAt |-> None])]

\* AlertService.createAlert (the part before its caller's await)
createAlert(S, alertData) ==
    [S EXCEPT !.alerts = Append(@, alertData @@ [id |-> S.alertIdCounter,
                                                timestamp |-> now,
                                                acknowledged |-> FALSE,
                                                acknowledgedBy |-> None,
                                                acknowledgedAt |-> None]),
              !.alertIdCounter = @ + 1]

AlertData(c, origin, type, severity, kind, geofenceId, ruleId, actual) ==
    [equipmentId |-> calls[c].equipmentId, type |-> type, severity |-> severity,
     kind |-> kind, geofenceId |-> geofenceId, ruleId |-> ruleId, actual |-> actual,
     call |-> c, origin |-> origin, sweep |-> 0]

(***************************************************************************)
(* AlertService.checkGeofenceViolations                                    *)
(***************************************************************************)
\* a check that treats every pair as never seen
wasInside_NeverSeen(last, geofence) == FALSE

wasInside(last, geofence) ==
    IF IsSome(last) THEN isPositionInGeofence(Val(last).position, geofence) ELSE FALSE

\* the follow-up of a finished checkGeofenceViolations: the listener's
\* .then callback, or the continuation of AppService.processPositionUpdate
AfterGeofenceCheck(S, c, origin) ==
    IF origin = "listener"
    THEN Enqueue(S, Task("then_rules", c, origin, None, <<>>, 0, "", FALSE))
    ELSE Enqueue(S, Task("app_rules", c, origin, None, <<>>, 0, "", FALSE))

\* the loop over the geofences from index i up to the next await or the end
GeofenceLoop(S, c, origin, last, list, i) ==
    LET position == calls[c].position
        crossing == {j \in i..Len(list) :
                        isPositionInGeofence(position, list[j]) # wasInside(last, list[j])}
    IN  IF crossing = {}
        THEN AfterGeofenceCheck(
                 [S EXCEPT !.lastPositions[calls[c].equipmentId] =
                               Some([position |-> position, timestamp |-> now])],
                 c, origin)
        ELSE LET j == CHOOSE m \in crossing : \A n \in crossing : m <= n
                 kind == IF isPositionInGeofence(position, list[j])
                         THEN "entered" ELSE "exited"
             IN  Enqueue(createAlert(S, AlertData(c, origin, "geofence_violation",
                                                  "medium", kind, list[j].id, "", None)),
                         Task("geofences", c, origin, last, list, j + 1, "", FALSE))

checkGeofenceViolations(S, c, origin) ==
    GeofenceLoop(S, c, origin, S.lastPositions[calls[c].equipmentId],
                 SelectSeq(geofences, LAMBDA gf : gf.active), 1)

(***************************************************************************)
(* AlertService.checkMonitoringRules and evaluateRule                      *)
(***************************************************************************)
\* checkMonitoringRules returns: AppService.processPositionUpdate awaits the
\* direct run, nobody awaits the listener's
AfterRulesCheck(S, c, origin) ==
    IF origin = "direct" THEN Enqueue(S, SimpleTask("app_done", c, FALSE)) ELSE S

\* evaluateRule returns (flag FALSE) or throws (flag TRUE); the await of
\* checkMonitoringRules' loop resumes one job later
RuleSettled(S, c, origin, list, i, threw) ==
    Enqueue(S, Task("rule_settled", c, origin, None, list, i, "", threw))

RuleAlert(S, c, origin, list, i, kind, actual, nextStage) ==
    Enqueue(createAlert(S, AlertData(c, origin, list[i].alertType, list[i].severity,
                                     kind, 0, list[i].id, actual)),
            Task("rule", c, origin, None, list, i, nextStage, FALSE))

\* the operating hours check of evaluateRule
EvalHours(S, c, origin, list, i) ==
    LET hours == list[i].operatingHours
        currentTime == CurrentTime(calls[c].position.timestamp)
    IN  IF ~IsSome(hours) THEN RuleSettled(S, c, origin, list, i, FALSE)
        ELSE IF ~IsSome(Val(hours).start) \/ ~IsSome(Val(hours).end)
        THEN RuleSettled(S, c, origin, list, i, TRUE)
        ELSE LET startTimeParts == TimeParts(Val(Val(hours).start))
                 endTimeParts == TimeParts(Val(Val(hours).end))
             IN  IF PartsInvalid(startTimeParts, endTimeParts)
                 THEN RuleSettled(S, c, origin, list, i, FALSE)
                 ELSE IF \/ currentTime < MinutesOf(startTimeParts)
                         \/ currentTime > MinutesOf(endTimeParts)
                 THEN RuleAlert(S, c, origin, list, i, "hours", <<currentTime>>, "end")
                 ELSE RuleSettled(S, c, origin, list, i, FALSE)

\* the accuracy check with the comparison >= in place of >
EvalAccuracy_AtLeast(S, c, origin, list, i) ==
    LET position == calls[c].position
    IN  IF IsSome(list[i].minAccuracy) /\ position.accuracy >= Val(list[i].minAccuracy)
        THEN RuleAlert(S, c, origin, list, i, "accuracy", <<position.accuracy>>, "hours")
        ELSE EvalHours(S, c, origin, list, i)

\* the accuracy check of evaluateRule, and what follows it
EvalAccuracy(S, c, origin, list, i) ==
    LET position == calls[c].position
    IN  IF IsSome(list[i].minAccuracy) /\ position.accuracy > Val(list[i].minAccuracy)
        THEN RuleAlert(S, c, origin, list, i, "accuracy", <<position.accuracy>>, "hours")
        ELSE EvalHours(S, c, origin, list, i)

\* the speed of evaluateRule exceeds maxSpeed: distance / timeDiff > maxSpeed
SpeedExceeded(position, lastPositionData, maxSpeed) ==
    LET timeDiff == position.timestamp - lastPositionData.timestamp
        distance == IF \/ position.y # lastPositionData.position.y
                       \/ position.x # lastPositionData.position.x
                    THEN SimplifiedDistance ELSE 0
    IN  timeDiff > 0 /\ distance > maxSpeed * timeDiff

\* the speed check of evaluateRule, and what follows it
EvalSpeed(S, c, origin, list, i) ==
    LET position == calls[c].position
        lastPositionData == S.lastPositions[calls[c].equipmentId]
    IN  IF /\ IsSome(list[i].maxSpeed)
           /\ IsSome(lastPositionData)
           /\ SpeedExceeded(position, Val(lastPositionData), Val(list[i].maxSpeed))
        THEN RuleAlert(S, c, origin, list, i, "speed",
                       <<SimplifiedDistance,
                         position.timestamp - Val(lastPositionData).timestamp>>,
                       "accuracy")
        ELSE EvalAccuracy(S, c, origin, list, i)

\* the loop of checkMonitoringRules from rule i: evaluateRule is entered
RuleLoop(S, c, origin, list, i) ==
    IF i > Len(list) THEN AfterRulesCheck(S, c, origin)
    ELSE EvalSpeed([S EXCEPT !.evaluations =
                        Append(@, [call |-> c, origin |-> origin, ruleId |-> list[i].id])],
                   c, origin, list, i)

RuleApplies(rule, equipmentId) ==
    rule.enabled /\ (~IsSome(rule.equipmentId) \/ Val(rule.equipmentId) = equipmentId)

checkMonitoringRules(S, c, origin) ==
    RuleLoop(S, c, origin,
             SelectSeq(monitoringRules, LAMBDA r : RuleApplies(r, calls[c].equipmentId)), 1)

\* evaluateRule resumes after the await of a createAlert
ResumeRule(S, c, origin, list, i, stage) ==
    CASE stage = "accuracy" -> EvalAccuracy(S, c, origin, list, i)
      [] stage = "hours" -> EvalHours(S, c, origin, list, i)
      [] OTHER -> RuleSettled(S, c, origin, list, i, FALSE)

(***************************************************************************)
(* GpsTrackingService helpers                                              *)
(***************************************************************************)
\* the latitudes -90 and 90 and the longitudes -180 and 180 in the frame
MinY == -28415000
MaxY == 11614000
MinX == -10124000
MaxX == 53153000

\* a validation that does not look at the accuracy
validatePosition_RangesOnly(position) ==
    /\ ~(position.y < MinY \/ position.y > MaxY)
    /\ ~(position.x < MinX \/ position.x > MaxX)

\* GpsTrackingService.validatePosition
validatePosition(position) ==
    /\ ~(position.y < MinY \/ position.y > MaxY)
    /\ ~(position.x < MinX \/ position.x > MaxX)
    /\ ~(position.accuracy # 0 /\ position.accuracy < 0)

Abs(n) == IF n < 0 THEN -n ELSE n

lastPositionOf(equipmentId) ==
    IF IsSome(trackingStates[equipmentId])
    THEN Val(trackingStates[equipmentId]).lastPosition
    ELSE None

\* a duplicate test that forgets Math.abs: only later timestamps count
isDuplicatePosition_ForwardOnly(equipmentId, position) ==
    LET lastPosition == lastPositionOf(equipmentId)
    IN  IF ~IsSome(lastPosition) THEN FALSE
        ELSE /\ DistLessThanMeters(position.x, position.y, Val(lastPosition).x,
                                   Val(lastPosition).y, DuplicateDistanceMeters)
             /\ position.timestamp - Val(lastPosition).timestamp >= 0
             /\ position.timestamp - Val(lastPosition).timestamp < DuplicateWindowSeconds

\* GpsTrackingService.isDuplicatePosition
isDuplicatePosition(equipmentId, position) ==
    LET lastPosition == lastPositionOf(equipmentId)
    IN  IF ~IsSome(lastPosition) THEN FALSE
        ELSE /\ DistLessThanMeters(position.x, position.y, Val(lastPosition).x,
                                   Val(lastPosition).y, DuplicateDistanceMeters)
             /\ Abs(position.timestamp - Val(lastPosition).timestamp)
                    < DuplicateWindowSeconds

\* an out-of-sequence test with <= in place of <
isOutOfSequence_OrEqual(equipmentId, position) ==
    LET lastPosition == lastPositionOf(equipmentId)
    IN  IF ~IsSome(lastPosition) THEN FALSE
        ELSE position.timestamp <= Val(lastPosition).timestamp

\* GpsTrackingService.isOutOfSequence
isOutOfSequence(equipmentId, position) ==
    LET lastPosition == lastPositionOf(equipmentId)
    IN  IF ~IsSome(lastPosition) THEN FALSE
        ELSE position.timestamp < Val(lastPosition).timestamp

\* GpsTrackingService.updateTrackingState
updateTrackingState(states, equipmentId, position) ==
    LET state == IF IsSome(states[equipmentId]) THEN Val(states[equipmentId])
                 ELSE [isTracking |-> TRUE, lastPosition |-> None,
                       connectionQuality |-> "good", consecutiveErrors |-> 0]
    IN  [states EXCEPT ![equipmentId] =
            Some([state EXCEPT !.lastPosition = Some(position), !.isTracking = TRUE])]

\* GpsTrackingService.updateConnectionQuality
updateConnectionQuality(states, equipmentId, success) ==
    IF ~IsSome(states[equipmentId]) THEN states
    ELSE LET state == Val(states[equipmentId])
             errors == state.consecutiveErrors + 1
         IN  [states EXCEPT ![equipmentId] =
                IF success
                THEN Some([state EXCEPT !.consecutiveErrors = 0,
                                        !.connectionQuality = "excellent"])
                ELSE Some([state EXCEPT !.consecutiveErrors = errors,
                                        !.connectionQuality =
                                            IF errors > 10 THEN "poor"
                                            ELSE IF errors > 5 THEN "fair" ELSE "good"])]

\* GpsTrackingService.checkForMovement: the speed from the stored last
\* position to the position exceeds 0.5 m/s (2 * distance > timeDiff)
checkForMovement(states, equipmentId, position) ==
    LET lastPosition == Val(states[equipmentId]).lastPosition
        timeDiff == position.timestamp - Val(lastPosition).timestamp
    IN  /\ IsSome(lastPosition)
        /\ timeDiff > 0
        /\ 4 * DistSq(position.x, position.y, Val(lastPosition).x, Val(lastPosition).y)
              > (UnitsPerMeter * timeDiff) * (UnitsPerMeter * timeDiff)

\* the catch block of GpsTrackingService.processPositionUpdate
recordError(stats) == [stats EXCEPT !.errorLog = @ + 1]

(***************************************************************************)
(* Initial state: the services as constructed by `new AppService()`.       *)
(***************************************************************************)
Init ==
    /\ initialized = FALSE
    /\ now = 0
    /\ equipmentStore = SampleEquipment
    /\ positionStore = SamplePositions
    /\ trackingStates = [e \in AllEquipment |-> None]
    /\ statisticsStore = [invalidPositionCount |-> 0, duplicatePositionCount |-> 0,
                          outOfSequenceCount |-> 0, errorLog |-> 0]
    /\ emitted = <<>>
    /\ alerts = <<>>
    /\ alertIdCounter = 1
    /\ geofences = <<>>
    /\ geofenceIdCounter = 1
    /\ monitoringRules = <<DefaultSpeedLimit, DefaultAccuracy>>
    /\ lastPositions = [e \in AllEquipment |-> None]
    /\ microtasks = <<>>
    /\ calls = <<>>
    /\ evaluations = <<>>
    /\ opCount = 0
    /\ tickCount = 0
    /\ nextSweep = SweepIntervalSeconds
    /\ sweeps = <<>>
    /\ opLog = <<>>
    /\ equipmentModel = [positionHistory |-> <<>>, lastPosition |-> None]
    /\ recorded = <<>>
    /\ bulk = None
    /\ responses = <<>>
    /\ userRequests = [u \in Users |-> None]
    /\ limited = <<>>
    /\ analyses = <<>>
    /\ simulationInterval = [e \in AllEquipment |-> None]
    /\ routeIndex = [e \in AllEquipment |-> None]
    /\ timers = {}
    /\ timerIdCounter = 1
    /\ submitted = <<>>
    /\ completed = {}

gpsVars == <<positionStore, trackingStates, statisticsStore, emitted>>
alertVars == <<alerts, alertIdCounter, lastPositions, evaluations>>
extraVars == <<nextSweep, sweeps, opLog>>
equipmentVars == <<equipmentModel, recorded>>
bulkVars == <<bulk, responses>>
rateVars == <<userRequests, limited>>
simulationVars == <<simulationInterval, routeIndex, timers, timerIdCounter,
                    submitted, completed>>
moreVars == <<equipmentVars, bulkVars, rateVars, analyses, simulationVars>>
configVars == <<initialized, equipmentStore, geofences, geofenceIdCounter,
                monitoringRules, opCount, tickCount, extraVars, moreVars>>

\* everything the services hold
serviceVars == <<now, microtasks, calls, initialized, equipmentStore, geofences,
                 geofenceIdCounter, monitoringRules, opCount, tickCount, extraVars,
                 gpsVars, alertVars>>

Idle == microtasks = <<>>

SetAlertState(S) ==
    /\ alerts' = S.alerts
    /\ alertIdCounter' = S.alertIdCounter
    /\ lastPositions' = S.lastPositions
    /\ evaluations' = S.evaluations
    /\ microtasks' = S.microtasks

Running(k) == microtasks # <<>> /\ Head(microtasks).k = k

(***************************************************************************)
(* Configuration operations (each runs to completion when called)          *)
(***************************************************************************)
\* AppService.initialize: setupServiceIntegrations and setupSampleGeofences
Initialize ==
    /\ ~initialized
    /\ Idle
    /\ initialized' = TRUE
    /\ geofences' = geofences \o <<WithId(MainWarehouse, geofenceIdCounter),
                                   WithId(ConstructionSiteA, geofenceIdCounter + 1)>>
    /\ geofenceIdCounter' = geofenceIdCounter + 2
    /\ UNCHANGED <<now, equipmentStore, monitoringRules, opCount, tickCount, microtasks, calls>>
    /\ UNCHANGED gpsVars
    /\ UNCHANGED alertVars
    /\ UNCHANGED extraVars
    /\ UNCHANGED moreVars

\* AlertService.addGeofence
addGeofence(geofenceData) ==
    /\ initialized
    /\ Idle
    /\ opCount < MaxOps
    /\ opCount' = opCount + 1
    /\ geofences' = Append(geofences, WithId(geofenceData, geofenceIdCounter))
    /\ geofenceIdCounter' = geofenceIdCounter + 1
    /\ UNCHANGED <<initialized, now, equipmentStore, monitoringRules, tickCount, microtasks, calls>>
    /\ UNCHANGED gpsVars
    /\ UNCHANGED alertVars
    /\ UNCHANGED extraVars
    /\ UNCHANGED moreVars

\* a removal that sets the id counter back to the number of geofences left
removeGeofence_CounterFromSize(geofenceId) ==
    /\ initialized
    /\ Idle
    /\ opCount < MaxOps
    /\ \E i \in 1..Len(geofences) : geofences[i].id = geofenceId
    /\ opCount' = opCount + 1
    /\ geofences' = SelectSeq(geofences, LAMBDA gf : gf.id # geofenceId)
    /\ geofenceIdCounter' = Len(geofences')  + 1
    /\ UNCHANGED <<initialized, now, equipmentStore, monitoringRules,
                   tickCount, microtasks, calls>>
    /\ UNCHANGED gpsVars
    /\ UNCHANGED alertVars
    /\ UNCHANGED extraVars
    /\ UNCHANGED moreVars

\* AlertService.removeGeofence of a geofence that exists
removeGeofence(geofenceId) ==
    /\ initialized
    /\ Idle
    /\ opCount < MaxOps
    /\ \E i \in 1..Len(geofences) : geofences[i].id = geofenceId
    /\ opCount' = opCount + 1
    /\ geofences' = SelectSeq(geofences, LAMBDA gf : gf.id # geofenceId)
    /\ UNCHANGED <<initialized, now, equipmentStore, geofenceIdCounter, monitoringRules,
                   tickCount, microtasks, calls>>
    /\ UNCHANGED gpsVars
    /\ UNCHANGED alertVars
    /\ UNCHANGED extraVars
    /\ UNCHANGED moreVars

\* Map.set: a known key keeps its place in the iteration order
MapSet(map, entry) ==
    IF \E i \in 1..Len(map) : map[i].id = entry.id
    THEN [i \in 1..Len(map) |-> IF map[i].id = entry.id THEN entry ELSE map[i]]
    ELSE Append(map, entry)

\* AlertService.addMonitoringRule
addMonitoringRule(ruleData) ==
    /\ initialized
    /\ Idle
    /\ opCount < MaxOps
    /\ opCount' = opCount + 1
    /\ monitoringRules' = MapSet(monitoringRules, ruleData)
    /\ UNCHANGED <<initialized, now, equipmentStore, geofences, geofenceIdCounter,
                   tickCount, microtasks, calls>>
    /\ UNCHANGED gpsVars
    /\ UNCHANGED alertVars
    /\ UNCHANGED extraVars
    /\ UNCHANGED moreVars

\* AlertService.removeMonitoringRule of a rule that exists
removeMonitoringRule(ruleId) ==
    /\ initialized
    /\ Idle
    /\ opCount < MaxOps
    /\ \E i \in 1..Len(monitoringRules) : monitoringRules[i].id = ruleId
    /\ opCount' = opCount + 1
    /\ monitoringRules' = SelectSeq(monitoringRules, LAMBDA r : r.id # ruleId)
    /\ UNCHANGED <<initialized, now, equipmentStore, geofences, geofenceIdCounter,
                   tickCount, microtasks, calls>>
    /\ UNCHANGED gpsVars
    /\ UNCHANGED alertVars
    /\ UNCHANGED extraVars
    /\ UNCHANGED moreVars

\* the wall clock advances by d seconds between two requests (the
\* specifications that use it alone leave the periodic sweep out)
Tick(d) ==
    /\ Idle
    /\ tickCount < MaxTicks
    /\ tickCount' = tickCount + 1
    /\ now' = now + d
    /\ UNCHANGED <<microtasks, calls, initialized, equipmentStore, geofences,
                   geofenceIdCounter, monitoringRules, opCount>>
    /\ UNCHANGED gpsVars
    /\ UNCHANGED alertVars
    /\ UNCHANGED extraVars
    /\ UNCHANGED moreVars

(***************************************************************************)
(* AppService.processPositionUpdate and, inside it,                        *)
(* GpsTrackingService.processPositionUpdate                                *)
(***************************************************************************)
\* what the call found when it started (history, for the properties)
Before(equipmentId) ==
    [lastPosition |-> lastPositionOf(equipmentId),
     trackingState |-> trackingStates[equipmentId],
     lastPositionData |-> lastPositions[equipmentId],
     stored |-> Len(positionStore),
     emitted |-> Len(emitted),
     statisticsStore |-> statisticsStore,
     alerts |-> Len(alerts),
     geofences |-> geofences,
     monitoringRules |-> monitoringRules,
     now |-> now]

SetOutcome(c, outcome) == calls' = [calls EXCEPT ![c].outcome = outcome]

\* the call, up to the first await (of validatePosition)
processPositionUpdate(equipmentId, position) ==
    /\ initialized
    /\ Idle
    /\ Len(calls) < MaxCalls
    /\ calls' = Append(calls, [equipmentId |-> equipmentId, position |-> position,
                               outcome |-> "running", done |-> FALSE,
                               before |-> Before(equipmentId)])
    /\ microtasks' = <<SimpleTask("gps_validated", Len(calls) + 1, FALSE)>>
    /\ UNCHANGED now
    /\ UNCHANGED configVars
    /\ UNCHANGED gpsVars
    /\ UNCHANGED alertVars

\* a further call made by a caller that did not await the call before: it
\* starts before any continuation of that one has run
processPositionUpdateOverlapping(equipmentId, position) ==
    /\ initialized
    /\ Len(calls) < MaxOverlappingCalls
    /\ calls # <<>>
    /\ microtasks = <<SimpleTask("gps_validated", Len(calls), FALSE)>>
    /\ calls' = Append(calls, [equipmentId |-> equipmentId, position |-> position,
                               outcome |-> "running", done |-> FALSE,
                               before |-> Before(equipmentId)])
    /\ microtasks' = Append(microtasks, SimpleTask("gps_validated", Len(calls) + 1, FALSE))
    /\ UNCHANGED now
    /\ UNCHANGED configVars
    /\ UNCHANGED gpsVars
    /\ UNCHANGED alertVars

\* after `await this.validatePosition`: throw, or call isDuplicatePosition
GpsValidated ==
    /\ Running("gps_validated")
    /\ LET c == Head(microtasks).c
           equipmentId == calls[c].equipmentId
           position == calls[c].position
       IN  IF ~validatePosition(position)
           THEN /\ statisticsStore' =
                       recordError([statisticsStore EXCEPT !.invalidPositionCount = @ + 1])
                /\ trackingStates' = updateConnectionQuality(trackingStates, equipmentId, FALSE)
                /\ SetOutcome(c, "invalid")
                /\ microtasks' = Append(Tail(microtasks), SimpleTask("app_after_gps", c, TRUE))
           ELSE /\ microtasks' =
                       Append(Tail(microtasks),
                              SimpleTask("gps_duplicate", c,
                                         isDuplicatePosition(equipmentId, position)))
                /\ UNCHANGED <<statisticsStore, trackingStates, calls>>
    /\ UNCHANGED <<now, positionStore, emitted>>
    /\ UNCHANGED configVars
    /\ UNCHANGED alertVars

\* after `await this.isDuplicatePosition`: return, or call isOutOfSequence
GpsDuplicateChecked ==
    /\ Running("gps_duplicate")
    /\ LET c == Head(microtasks).c
       IN  IF Head(microtasks).flag
           THEN /\ statisticsStore' =
                       [statisticsStore EXCEPT !.duplicatePositionCount = @ + 1]
                /\ SetOutcome(c, "duplicate")
                /\ microtasks' = Append(Tail(microtasks), SimpleTask("app_after_gps", c, FALSE))
           ELSE /\ microtasks' =
                       Append(Tail(microtasks),
                              SimpleTask("gps_sequence", c,
                                         isOutOfSequence(calls[c].equipmentId,
                                                         calls[c].position)))
                /\ UNCHANGED <<statisticsStore, calls>>
    /\ UNCHANGED <<now, positionStore, trackingStates, emitted>>
    /\ UNCHANGED configVars
    /\ UNCHANGED alertVars

\* after `await this.isOutOfSequence`: count, and call positionRepository.create
GpsSequenceChecked ==
    /\ Running("gps_sequence")
    /\ LET c == Head(microtasks).c
       IN  /\ statisticsStore' =
                  IF Head(microtasks).flag
                  THEN [statisticsStore EXCEPT !.outOfSequenceCount = @ + 1]
                  ELSE statisticsStore
           /\ positionStore' = Append(positionStore,
                                      [equipmentId |-> calls[c].equipmentId,
                                       position |-> calls[c].position])
           /\ microtasks' = Append(Tail(microtasks), SimpleTask("gps_created", c, FALSE))
    /\ UNCHANGED <<now, trackingStates, emitted, calls>>
    /\ UNCHANGED configVars
    /\ UNCHANGED alertVars

\* after `await this.positionRepository.create`:
\* EquipmentService.updateEquipmentPosition (getEquipment, then a create of
\* its own), or the catch block when the equipment does not exist
GpsPositionCreated ==
    /\ Running("gps_created")
    /\ LET c == Head(microtasks).c
           equipmentId == calls[c].equipmentId
       IN  IF equipmentId \in equipmentStore
           THEN /\ positionStore' = Append(positionStore,
                                           [equipmentId |-> equipmentId,
                                            position |-> calls[c].position])
                /\ microtasks' = Append(Tail(microtasks),
                                        SimpleTask("gps_equipment_updated", c, FALSE))
                /\ UNCHANGED <<statisticsStore, trackingStates, calls>>
           ELSE /\ statisticsStore' = recordError(statisticsStore)
                /\ trackingStates' = updateConnectionQuality(trackingStates, equipmentId, FALSE)
                /\ SetOutcome(c, "failed")
                /\ microtasks' = Append(Tail(microtasks), SimpleTask("app_after_gps", c, TRUE))
                /\ UNCHANGED positionStore
    /\ UNCHANGED <<now, emitted>>
    /\ UNCHANGED configVars
    /\ UNCHANGED alertVars

\* after `await this.equipmentService.updateEquipmentPosition`: the tracking
\* state, the 'positionUpdate' event (its listener starts
\* checkGeofenceViolations), checkForMovement, and the return
GpsEquipmentUpdated ==
    /\ Running("gps_equipment_updated")
    /\ LET c == Head(microtasks).c
           equipmentId == calls[c].equipmentId
           position == calls[c].position
           states == updateConnectionQuality(
                         updateTrackingState(trackingStates, equipmentId, position),
                         equipmentId, TRUE)
           update == <<[event |-> "positionUpdate", equipmentId |-> equipmentId,
                        position |-> position]>>
           movement == IF checkForMovement(states, equipmentId, position)
                       THEN <<[event |-> "movementDetected", equipmentId |-> equipmentId,
                               position |-> position]>>
                       ELSE <<>>
       IN  /\ trackingStates' = states
           /\ emitted' = emitted \o update \o movement
           /\ SetOutcome(c, "accepted")
           /\ SetAlertState(Enqueue(checkGeofenceViolations(AlertState, c, "listener"),
                                    SimpleTask("app_after_gps", c, FALSE)))
    /\ UNCHANGED <<now, positionStore, statisticsStore>>
    /\ UNCHANGED configVars

\* the continuation of the caller that awaits call c: bulkCreate's loop
\* when the call is one of its own, none otherwise
CallerResumes(c, threw) ==
    IF IsSome(bulk) /\ Val(bulk).call = c
    THEN <<SimpleTask("bulk_resumed", c, threw)>>
    ELSE <<>>

\* the call was made by the callback of a simulation timer
Simulated(c) == \E n \in 1..Len(submitted) : submitted[n].call = c

\* AppService.processPositionUpdate after `await gpsTrackingService
\* .processPositionUpdate`: rethrow, or call checkGeofenceViolations; for a
\* call of a simulation timer, whose only continuation is a .catch that
\* logs, the end of the call
AppAfterGps ==
    /\ Running("app_after_gps")
    /\ LET c == Head(microtasks).c
       IN  IF Head(microtasks).flag \/ Simulated(c)
           THEN /\ calls' = [calls EXCEPT ![c].done = TRUE]
                /\ microtasks' = Tail(microtasks) \o CallerResumes(c, TRUE)
                /\ UNCHANGED alertVars
           ELSE /\ SetAlertState(checkGeofenceViolations(AlertState, c, "direct"))
                /\ UNCHANGED calls
    /\ UNCHANGED now
    /\ UNCHANGED configVars
    /\ UNCHANGED gpsVars

\* checkGeofenceViolations after the await of a createAlert
GeofenceCheckResumed ==
    /\ Running("geofences")
    /\ LET t == Head(microtasks)
       IN  SetAlertState(GeofenceLoop(AlertState, t.c, t.origin, t.last, t.list, t.i))
    /\ UNCHANGED <<now, calls>>
    /\ UNCHANGED configVars
    /\ UNCHANGED gpsVars

\* the listener's .then callback: checkMonitoringRules
ListenerRules ==
    /\ Running("then_rules")
    /\ SetAlertState(checkMonitoringRules(AlertState, Head(microtasks).c, "listener"))
    /\ UNCHANGED <<now, calls>>
    /\ UNCHANGED configVars
    /\ UNCHANGED gpsVars

\* AppService.processPositionUpdate after `await checkGeofenceViolations`
AppRules ==
    /\ Running("app_rules")
    /\ SetAlertState(checkMonitoringRules(AlertState, Head(microtasks).c, "direct"))
    /\ UNCHANGED <<now, calls>>
    /\ UNCHANGED configVars
    /\ UNCHANGED gpsVars

\* evaluateRule after the await of a createAlert
RuleResumed ==
    /\ Running("rule")
    /\ LET t == Head(microtasks)
       IN  SetAlertState(ResumeRule(AlertState, t.c, t.origin, t.list, t.i, t.stage))
    /\ UNCHANGED <<now, calls>>
    /\ UNCHANGED configVars
    /\ UNCHANGED gpsVars

\* checkMonitoringRules after `await this.evaluateRule`: the catch block
\* when it threw, the next rule otherwise
RuleSettledResumed ==
    /\ Running("rule_settled")
    /\ LET t == Head(microtasks)
       IN  SetAlertState(IF t.flag
                         THEN AfterRulesCheck(AlertState, t.c, t.origin)
                         ELSE RuleLoop(AlertState, t.c, t.origin, t.list, t.i + 1))
    /\ UNCHANGED <<now, calls>>
    /\ UNCHANGED configVars
    /\ UNCHANGED gpsVars

\* AppService.processPositionUpdate returns
AppDone ==
    /\ Running("app_done")
    /\ calls' = [calls EXCEPT ![Head(microtasks).c].done = TRUE]
    /\ microtasks' = Tail(microtasks) \o CallerResumes(Head(microtasks).c, FALSE)
    /\ UNCHANGED now
    /\ UNCHANGED configVars
    /\ UNCHANGED gpsVars
    /\ UNCHANGED alertVars

RunMicrotask ==
    \/ GpsValidated
    \/ GpsDuplicateChecked
    \/ GpsSequenceChecked
    \/ GpsPositionCreated
    \/ GpsEquipmentUpdated
    \/ AppAfterGps
    \/ GeofenceCheckResumed
    \/ ListenerRules
    \/ AppRules
    \/ RuleResumed
    \/ RuleSettledResumed
    \/ AppDone

(***************************************************************************)
(* AlertService.startPeriodicMonitoring and checkInactiveEquipment.  The   *)
(* interval timer is started by the constructor and fires every five       *)
(* minutes; its callback is a task of its own, so it starts on an empty    *)
(* job queue.                                                              *)
(***************************************************************************)
\* the keys of lastPositions in the iteration order of the Map: the
\* equipment in the order of their first accepted position
lastPositionsKeys ==
    LET first(c) ==
            /\ calls[c].outcome = "accepted"
            /\ IsSome(lastPositions[calls[c].equipmentId])
            /\ \A d \in 1..(c - 1) : ~ /\ calls[d].outcome = "accepted"
                                       /\ calls[d].equipmentId = calls[c].equipmentId
        order == SelectSeq([c \in 1..Len(calls) |-> c], first)
    IN  [n \in 1..Len(order) |-> calls[order[n]].equipmentId]

\* the alert of run n of the sweep for an equipment
InactiveAlertData(n, equipmentId, inactiveTime) ==
    [equipmentId |-> equipmentId, type |-> "connection_lost", severity |-> "medium",
     kind |-> "inactive", geofenceId |-> 0, ruleId |-> "", actual |-> Some(inactiveTime),
     call |-> 0, origin |-> "sweep", sweep |-> n]

\* a test with >= in place of >
isInactive_AtThreshold(inactiveTime) == inactiveTime >= InactiveThresholdSeconds

\* `inactiveTime > inactiveThreshold`
isInactive(inactiveTime) == inactiveTime > InactiveThresholdSeconds

\* the loop of run n over the entries from index i up to the next await or
\* the end; at is the `now` the run took when it started
InactiveLoop(S, n, at, list, i) ==
    LET inactiveTime(j) == at - Val(S.lastPositions[list[j]]).timestamp
        inactive == {j \in i..Len(list) : isInactive(inactiveTime(j))}
    IN  IF inactive = {}
        THEN S
        ELSE LET j == CHOOSE m \in inactive : \A k \in inactive : m <= k
             IN  Enqueue(createAlert(S, InactiveAlertData(n, list[j], inactiveTime(j))),
                         Task("sweep", n, "sweep", None, list, j + 1, "", FALSE))

\* the timer fires: checkInactiveEquipment up to its first await
checkInactiveEquipment ==
    /\ Idle
    /\ now = nextSweep
    /\ Len(sweeps) < MaxSweeps
    /\ nextSweep' = nextSweep + SweepIntervalSeconds
    /\ sweeps' = Append(sweeps, [at |-> now, seen |-> lastPositions,
                                 calls |-> Len(calls), alerts |-> Len(alerts)])
    /\ SetAlertState(InactiveLoop([alerts |-> alerts, alertIdCounter |-> alertIdCounter,
                                   lastPositions |-> lastPositions, microtasks |-> <<>>,
                                   evaluations |-> evaluations],
                                  Len(sweeps) + 1, now, lastPositionsKeys, 1))
    /\ UNCHANGED <<now, calls, opLog>>
    /\ UNCHANGED <<initialized, equipmentStore, geofences, geofenceIdCounter,
                   monitoringRules, opCount, tickCount>>
    /\ UNCHANGED gpsVars
    /\ UNCHANGED moreVars

\* checkInactiveEquipment after the await of a createAlert
SweepResumed ==
    /\ Running("sweep")
    /\ LET t == Head(microtasks)
       IN  SetAlertState(InactiveLoop(AlertState, t.c, sweeps[t.c].at, t.list, t.i))
    /\ UNCHANGED <<now, calls>>
    /\ UNCHANGED configVars
    /\ UNCHANGED gpsVars

\* the wall clock advances by d seconds, not beyond the next firing of the timer
Advance(d) ==
    /\ now + d <= nextSweep
    /\ Tick(d)

\* the wall clock reaches the next firing of the timer
WaitForTimer ==
    /\ Idle
    /\ now < nextSweep
    /\ Len(sweeps) < MaxSweeps
    /\ now' = nextSweep
    /\ UNCHANGED <<microtasks, calls>>
    /\ UNCHANGED configVars
    /\ UNCHANGED gpsVars
    /\ UNCHANGED alertVars

(***************************************************************************)
(* Requests that run to completion when called.  Each appends its result   *)
(* to opLog, with the clock and the number of alerts and calls it found.   *)
(***************************************************************************)
LogEntry(op, alertId, geofenceId, equipmentId, by, result) ==
    [op |-> op, alertId |-> alertId, geofenceId |-> geofenceId,
     equipmentId |-> equipmentId, by |-> by, result |-> result,
     at |-> now, alerts |-> Len(alerts), calls |-> Len(calls)]

Log(entry) ==
    /\ Len(opLog) < MaxLog
    /\ opLog' = Append(opLog, entry)

\* an acknowledgeAlert without the test of alert.acknowledged
acknowledgeAlert_Again(alertId, acknowledgedBy) ==
    /\ Idle
    /\ IF ~ \E i \in 1..Len(alerts) : alerts[i].id = alertId
       THEN /\ Log(LogEntry("acknowledgeAlert", alertId, 0, "", acknowledgedBy, "not_found"))
            /\ UNCHANGED alerts
       ELSE LET alert == alerts[CHOOSE i \in 1..Len(alerts) : alerts[i].id = alertId]
            IN  /\ alerts' = MapSet(alerts, [alert EXCEPT !.acknowledged = TRUE,
                                                         !.acknowledgedBy = Some(acknowledgedBy),
                                                         !.acknowledgedAt = Some(now)])
                /\ Log(LogEntry("acknowledgeAlert", alertId, 0, "", acknowledgedBy, "ok"))
    /\ UNCHANGED <<now, microtasks, calls, alertIdCounter, lastPositions, evaluations>>
    /\ UNCHANGED <<initialized, equipmentStore, geofences, geofenceIdCounter,
                   monitoringRules, opCount, tickCount, nextSweep, sweeps>>
    /\ UNCHANGED gpsVars
    /\ UNCHANGED moreVars

\* AlertService.acknowledgeAlert
acknowledgeAlert(alertId, acknowledgedBy) ==
    /\ Idle
    /\ IF ~ \E i \in 1..Len(alerts) : alerts[i].id = alertId
       THEN /\ Log(LogEntry("acknowledgeAlert", alertId, 0, "", acknowledgedBy, "not_found"))
            /\ UNCHANGED alerts
       ELSE LET alert == alerts[CHOOSE i \in 1..Len(alerts) : alerts[i].id = alertId]
            IN  IF alert.acknowledged
                THEN /\ Log(LogEntry("acknowledgeAlert", alertId, 0, "", acknowledgedBy,
                                     "already_acknowledged"))
                     /\ UNCHANGED alerts
                ELSE /\ alerts' = MapSet(alerts, [alert EXCEPT !.acknowledged = TRUE,
                                                              !.acknowledgedBy = Some(acknowledgedBy),
                                                              !.acknowledgedAt = Some(now)])
                     /\ Log(LogEntry("acknowledgeAlert", alertId, 0, "", acknowledgedBy, "ok"))
    /\ UNCHANGED <<now, microtasks, calls, alertIdCounter, lastPositions, evaluations>>
    /\ UNCHANGED <<initialized, equipmentStore, geofences, geofenceIdCounter,
                   monitoringRules, opCount, tickCount, nextSweep, sweeps>>
    /\ UNCHANGED gpsVars
    /\ UNCHANGED moreVars

\* a clearInterval that leaves the interval running
clearInterval_Ignored(intervals, handle) == intervals

\* clearInterval(handle)
clearInterval(intervals, handle) ==
    {t \in intervals : ~(IsSome(handle) /\ t.id = Val(handle))}

\* GpsTrackingService.stopTracking
stopTracking(equipmentId) ==
    /\ Idle
    /\ Log(LogEntry("stopTracking", 0, 0, equipmentId, "", "ok"))
    /\ trackingStates' =
           IF IsSome(trackingStates[equipmentId])
           THEN [trackingStates EXCEPT ![equipmentId] =
                    Some([Val(@) EXCEPT !.isTracking = FALSE])]
           ELSE trackingStates
    /\ IF IsSome(trackingStates[equipmentId]) /\ IsSome(simulationInterval[equipmentId])
       THEN /\ timers' = clearInterval(timers, simulationInterval[equipmentId])
            /\ simulationInterval' = [simulationInterval EXCEPT ![equipmentId] = None]
       ELSE UNCHANGED <<timers, simulationInterval>>
    /\ UNCHANGED <<now, microtasks, calls, positionStore, statisticsStore, emitted>>
    /\ UNCHANGED <<initialized, equipmentStore, geofences, geofenceIdCounter,
                   monitoringRules, opCount, tickCount, nextSweep, sweeps>>
    /\ UNCHANGED alertVars
    /\ UNCHANGED <<equipmentVars, bulkVars, rateVars, analyses>>
    /\ UNCHANGED <<routeIndex, timerIdCounter, submitted, completed>>

\* GpsTrackingService.isTracking
isTracking(equipmentId) ==
    IF IsSome(trackingStates[equipmentId])
    THEN Val(trackingStates[equipmentId]).isTracking
    ELSE FALSE

\* a startTracking that leaves the flag of an existing state as it is
started_KeepFlag(states, equipmentId) ==
    IF IsSome(states[equipmentId]) THEN states
    ELSE [states EXCEPT ![equipmentId] =
             Some([isTracking |-> TRUE, lastPosition |-> None,
                   connectionQuality |-> "good", consecutiveErrors |-> 0])]

\* GpsTrackingService.startTracking after the await: the state of the map
\* or a new one, with isTracking set
started(states, equipmentId) ==
    LET state == IF IsSome(states[equipmentId]) THEN Val(states[equipmentId])
                 ELSE [isTracking |-> FALSE, lastPosition |-> None,
                       connectionQuality |-> "good", consecutiveErrors |-> 0]
    IN  [states EXCEPT ![equipmentId] = Some([state EXCEPT !.isTracking = TRUE])]

\* GpsTrackingService.startTracking up to `await this.equipmentService
\* .getEquipment`, whose findById reads the store before it first yields;
\* the task carries the local equipmentId in list and the rejection in flag
startTracking(equipmentId) ==
    /\ Idle
    /\ Len(opLog) < MaxLog
    /\ microtasks' = <<Task("start_resumed", 0, "direct", None, <<equipmentId>>, 0, "",
                            equipmentId \notin equipmentStore)>>
    /\ UNCHANGED <<now, calls>>
    /\ UNCHANGED configVars
    /\ UNCHANGED gpsVars
    /\ UNCHANGED alertVars

\* GpsTrackingService.startTracking after the await: the catch block
\* rethrows, or the state is set
StartResumed ==
    /\ Running("start_resumed")
    /\ LET equipmentId == Head(microtasks).list[1]
       IN  IF Head(microtasks).flag
           THEN /\ Log(LogEntry("startTracking", 0, 0, equipmentId, "", "not_found"))
                /\ UNCHANGED trackingStates
           ELSE /\ Log(LogEntry("startTracking", 0, 0, equipmentId, "", "ok"))
                /\ trackingStates' = started(trackingStates, equipmentId)
    /\ microtasks' = Tail(microtasks)
    /\ UNCHANGED <<now, calls, positionStore, statisticsStore, emitted>>
    /\ UNCHANGED <<initialized, equipmentStore, geofences, geofenceIdCounter,
                   monitoringRules, opCount, tickCount, nextSweep, sweeps>>
    /\ UNCHANGED alertVars
    /\ UNCHANGED moreVars

\* AlertService.removeGeofence of an id that no geofence has: it throws
removeGeofenceMissing(geofenceId) ==
    /\ initialized
    /\ Idle
    /\ ~ \E i \in 1..Len(geofences) : geofences[i].id = geofenceId
    /\ Log(LogEntry("removeGeofence", 0, geofenceId, "", "", "not_found"))
    /\ UNCHANGED <<now, microtasks, calls>>
    /\ UNCHANGED <<initialized, equipmentStore, geofences, geofenceIdCounter,
                   monitoringRules, opCount, tickCount, nextSweep, sweeps>>
    /\ UNCHANGED gpsVars
    /\ UNCHANGED alertVars
    /\ UNCHANGED moreVars

\* GeofenceController.activate and deactivate: the geofence is looked up,
\* a copy with the new flag is sent back, AlertService is not changed
SetActive(op, geofenceId) ==
    /\ initialized
    /\ Idle
    /\ Log(LogEntry(op, 0, geofenceId, "", "",
                    IF \E i \in 1..Len(geofences) : geofences[i].id = geofenceId
                    THEN "ok" ELSE "not_found"))
    /\ UNCHANGED <<now, microtasks, calls>>
    /\ UNCHANGED <<initialized, equipmentStore, geofences, geofenceIdCounter,
                   monitoringRules, opCount, tickCount, nextSweep, sweeps>>
    /\ UNCHANGED gpsVars
    /\ UNCHANGED alertVars
    /\ UNCHANGED moreVars

activate(geofenceId) == SetActive("activate", geofenceId)

deactivate(geofenceId) == SetActive("deactivate", geofenceId)

(***************************************************************************)
(* PositionController.bulkCreate: a loop that awaits one                   *)
(* AppService.processPositionUpdate per item inside a try/catch.           *)
(***************************************************************************)
\* the record of a new call
NewCall(equipmentId, position) ==
    [equipmentId |-> equipmentId, position |-> position, outcome |-> "running",
     done |-> FALSE, before |-> Before(equipmentId)]

\* a loop that gives up at the first item that failed
bulkContinues_UntilFailure(b, threw) == ~threw /\ b.i < Len(b.positions)

\* `for (const positionData of positions)`: there is a next item
bulkContinues(b, threw) == b.i < Len(b.positions)

\* the request arrives: the loop up to the await of the first item
bulkCreate(positions) ==
    /\ initialized
    /\ Idle
    /\ ~IsSome(bulk)
    /\ Len(responses) < MaxBulk
    /\ positions # <<>>
    /\ calls' = Append(calls, NewCall(positions[1].equipmentId, positions[1].position))
    /\ microtasks' = <<SimpleTask("gps_validated", Len(calls) + 1, FALSE)>>
    /\ bulk' = Some([positions |-> positions, i |-> 1, created |-> 0, errors |-> <<>>,
                     call |-> Len(calls) + 1, first |-> Len(calls) + 1])
    /\ UNCHANGED <<now, responses>>
    /\ UNCHANGED <<initialized, equipmentStore, geofences, geofenceIdCounter,
                   monitoringRules, opCount, tickCount, extraVars, equipmentVars>>
    /\ UNCHANGED rateVars
    /\ UNCHANGED analyses
    /\ UNCHANGED simulationVars
    /\ UNCHANGED gpsVars
    /\ UNCHANGED alertVars

\* after `await this.appService.processPositionUpdate`: created++ or the
\* catch block, then the next item or the response
BulkResumed ==
    /\ Running("bulk_resumed")
    /\ LET threw == Head(microtasks).flag
           b == [Val(bulk) EXCEPT !.created = IF threw THEN @ ELSE @ + 1,
                                  !.errors = IF threw THEN Append(@, Val(bulk).i) ELSE @]
       IN  IF bulkContinues(b, threw)
           THEN /\ calls' = Append(calls, NewCall(b.positions[b.i + 1].equipmentId,
                                                  b.positions[b.i + 1].position))
                /\ microtasks' = Append(Tail(microtasks),
                                        SimpleTask("gps_validated", Len(calls) + 1, FALSE))
                /\ bulk' = Some([b EXCEPT !.i = @ + 1, !.call = Len(calls) + 1])
                /\ UNCHANGED responses
           ELSE /\ responses' = Append(responses,
                                       [positions |-> b.positions, created |-> b.created,
                                        errors |-> b.errors, first |-> b.first,
                                        status |-> IF b.created > 0 THEN 201 ELSE 400])
                /\ bulk' = None
                /\ microtasks' = Tail(microtasks)
                /\ UNCHANGED calls
    /\ UNCHANGED now
    /\ UNCHANGED <<initialized, equipmentStore, geofences, geofenceIdCounter,
                   monitoringRules, opCount, tickCount, extraVars, equipmentVars>>
    /\ UNCHANGED rateVars
    /\ UNCHANGED analyses
    /\ UNCHANGED simulationVars
    /\ UNCHANGED gpsVars
    /\ UNCHANGED alertVars

(***************************************************************************)
(* createUserRateLimit(windowMs, maxRequests): the middleware it returns,  *)
(* for a window of windowSeconds and a limit of maxRequests.               *)
(***************************************************************************)
\* what the middleware did: next() or next(error), and the headers it set
Passed(userId, headers) ==
    [userId |-> userId, at |-> now, status |-> 200, headers |-> headers]

Refused(userId, headers) ==
    [userId |-> userId, at |-> now, status |-> 429, headers |-> headers]

Headers(limit, remaining, reset) ==
    Some([limit |-> limit, remaining |-> remaining, reset |-> reset])

\* a first request of a window that sets the headers before it passes
firstOfWindow_WithHeaders(userId) ==
    Passed(userId, Headers(maxRequests, maxRequests - 1, now + windowSeconds))

\* `if (!userLimit || now > userLimit.resetTime)`: return next()
firstOfWindow(userId) == Passed(userId, None)

userRateLimit(userId) ==
    /\ Len(limited) < MaxLimited
    /\ LET userLimit == userRequests[userId]
       IN  IF ~IsSome(userLimit) \/ now > Val(userLimit).resetTime
           THEN /\ userRequests' = [userRequests EXCEPT ![userId] =
                                       Some([count |-> 1, resetTime |-> now + windowSeconds])]
                /\ limited' = Append(limited, firstOfWindow(userId))
           ELSE IF Val(userLimit).count >= maxRequests
           THEN /\ limited' = Append(limited,
                                     Refused(userId, Headers(maxRequests, 0,
                                                             Val(userLimit).resetTime)))
                /\ UNCHANGED userRequests
           ELSE /\ userRequests' = [userRequests EXCEPT ![userId] =
                                       Some([Val(@) EXCEPT !.count = @ + 1])]
                /\ limited' = Append(limited,
                                     Passed(userId,
                                            Headers(maxRequests,
                                                    maxRequests - (Val(userLimit).count + 1),
                                                    Val(userLimit).resetTime)))
    /\ UNCHANGED serviceVars
    /\ UNCHANGED equipmentVars
    /\ UNCHANGED bulkVars
    /\ UNCHANGED analyses
    /\ UNCHANGED simulationVars

(***************************************************************************)
(* Simulation: simulateMovement sets an interval whose callback passes the *)
(* waypoints of a route to GpsTrackingService.processPositionUpdate.       *)
(***************************************************************************)
\* the state of stopSimulation: clear the interval, forget the handle and
\* the index
stopSimulationOn(S, equipmentId) ==
    IF IsSome(trackingStates[equipmentId]) /\ IsSome(S.simulationInterval[equipmentId])
    THEN [S EXCEPT !.timers = clearInterval(@, S.simulationInterval[equipmentId]),
                   !.simulationInterval[equipmentId] = None,
                   !.routeIndex[equipmentId] = None]
    ELSE S

SimulationState ==
    [timers |-> timers, simulationInterval |-> simulationInterval,
     routeIndex |-> routeIndex]

SetSimulationState(S) ==
    /\ timers' = S.timers
    /\ simulationInterval' = S.simulationInterval
    /\ routeIndex' = S.routeIndex

\* GpsTrackingService.stopSimulation
stopSimulation(equipmentId) ==
    /\ Idle
    /\ Log(LogEntry("stopSimulation", 0, 0, equipmentId, "", "ok"))
    /\ SetSimulationState(stopSimulationOn(SimulationState, equipmentId))
    /\ UNCHANGED <<now, microtasks, calls>>
    /\ UNCHANGED <<initialized, equipmentStore, geofences, geofenceIdCounter,
                   monitoringRules, opCount, tickCount, nextSweep, sweeps>>
    /\ UNCHANGED gpsVars
    /\ UNCHANGED alertVars
    /\ UNCHANGED <<equipmentVars, bulkVars, rateVars, analyses>>
    /\ UNCHANGED <<timerIdCounter, submitted, completed>>

\* GpsTrackingService.simulateMovement.  Its awaits (getEquipment, and
\* startTracking when the equipment is not tracking) settle in the
\* microtasks of the request itself; the rest runs without a break: clear
\* the interval of the state, routeIndex = 0, setInterval
simulateMovement(equipmentId, route) ==
    /\ initialized
    /\ Idle
    /\ IF equipmentId \notin equipmentStore
       THEN /\ Log(LogEntry("simulateMovement", 0, 0, equipmentId, "", "not_found"))
            /\ UNCHANGED <<trackingStates, timers, simulationInterval, routeIndex,
                           timerIdCounter>>
       ELSE /\ Log(LogEntry("simulateMovement", 0, 0, equipmentId, "", "ok"))
            /\ trackingStates' = IF isTracking(equipmentId) THEN trackingStates
                                 ELSE started(trackingStates, equipmentId)
            /\ timers' = clearInterval(timers, simulationInterval[equipmentId])
                             \cup {[id |-> timerIdCounter, equipmentId |-> equipmentId,
                                    route |-> route]}
            /\ simulationInterval' =
                   [simulationInterval EXCEPT ![equipmentId] = Some(timerIdCounter)]
            /\ routeIndex' = [routeIndex EXCEPT ![equipmentId] = Some(0)]
            /\ timerIdCounter' = timerIdCounter + 1
    /\ UNCHANGED <<now, microtasks, calls, positionStore, statisticsStore, emitted>>
    /\ UNCHANGED <<initialized, equipmentStore, geofences, geofenceIdCounter,
                   monitoringRules, opCount, tickCount, nextSweep, sweeps>>
    /\ UNCHANGED alertVars
    /\ UNCHANGED <<equipmentVars, bulkVars, rateVars, analyses>>
    /\ UNCHANGED <<submitted, completed>>

\* the callback of the interval t, SimulationIntervalSeconds after the
\* interval was set or last fired: the next waypoint goes to
\* GpsTrackingService.processPositionUpdate with the time of the callback
\* and the call is not awaited; or, the route being finished, stopSimulation
SimulationTick(t) ==
    /\ Idle
    /\ t \in timers
    /\ now' = now + SimulationIntervalSeconds
    /\ LET e == t.equipmentId
       IN  IF IsSome(routeIndex[e]) /\ Val(routeIndex[e]) < Len(t.route)
           THEN LET waypoint == t.route[Val(routeIndex[e]) + 1]
                    position == Position(waypoint.x, waypoint.y, waypoint.accuracy,
                                         now + SimulationIntervalSeconds)
                IN  /\ calls' = Append(calls,
                                       [NewCall(e, position) EXCEPT
                                           !.before.now = now + SimulationIntervalSeconds])
                    /\ microtasks' = <<SimpleTask("gps_validated", Len(calls) + 1, FALSE)>>
                    /\ submitted' = Append(submitted,
                                           [timer |-> t.id, equipmentId |-> e,
                                            index |-> Val(routeIndex[e]) + 1,
                                            call |-> Len(calls) + 1])
                    /\ routeIndex' = [routeIndex EXCEPT ![e] = Some(Val(@) + 1)]
                    /\ UNCHANGED <<timers, simulationInterval, completed>>
           ELSE /\ SetSimulationState(stopSimulationOn(SimulationState, e))
                /\ completed' = completed \cup {t.id}
                /\ UNCHANGED <<calls, microtasks, submitted>>
    /\ UNCHANGED <<initialized, equipmentStore, geofences, geofenceIdCounter,
                   monitoringRules, opCount, tickCount, extraVars>>
    /\ UNCHANGED gpsVars
    /\ UNCHANGED alertVars
    /\ UNCHANGED <<equipmentVars, bulkVars, rateVars, analyses, timerIdCounter>>

(***************************************************************************)
(* The Equipment domain object (models/equipment.ts)                       *)
(***************************************************************************)
\* Position.validate, which the Position constructor runs for a plain object
PositionValidate(position) ==
    /\ position.y >= MinY /\ position.y <= MaxY
    /\ position.x >= MinX /\ position.x <= MaxX
    /\ ~(position.accuracy < 0)

\* a recordPosition that drops the newest entry of a full history
recordPositionOn_DropNewest(equipment, position) ==
    LET pushed == Append(equipment.positionHistory, position)
    IN  [positionHistory |-> IF Len(pushed) > DefaultMaxHistorySize
                             THEN SubSeq(pushed, 1, Len(pushed) - 1) ELSE pushed,
         lastPosition |-> Some(position)]

\* Equipment.recordPosition after Position.fromInterface: push, set
\* lastPosition, shift when the history is over its limit
recordPositionOn(equipment, position) ==
    LET pushed == Append(equipment.positionHistory, position)
    IN  [positionHistory |-> IF Len(pushed) > DefaultMaxHistorySize
                             THEN Tail(pushed) ELSE pushed,
         lastPosition |-> Some(position)]

\* Equipment.recordPosition; an invalid plain object makes the Position
\* constructor throw before anything is recorded
recordPosition(position) ==
    /\ Len(recorded) < MaxRecorded
    /\ IF PositionValidate(position)
       THEN /\ equipmentModel' = recordPositionOn(equipmentModel, position)
            /\ recorded' = Append(recorded, position)
       ELSE UNCHANGED <<equipmentModel, recorded>>
    /\ UNCHANGED serviceVars
    /\ UNCHANGED bulkVars
    /\ UNCHANGED rateVars
    /\ UNCHANGED analyses
    /\ UNCHANGED simulationVars

(***************************************************************************)
(* Inputs                                                                  *)
(***************************************************************************)
\* 10 m and 10.5 m, in units
Accurate == 10 * UnitsPerMeter
Inaccurate == 10 * UnitsPerMeter + 1

\* half a metre outside the Main Warehouse circle, on its boundary, and
\* inside the Construction Site A rectangle
Outside == <<0, 1001>>
OnBoundary == <<0, 1000>>
InRectangle == <<900, 1200>>
\* 1000 m north of OnBoundary
FarNorth == <<0, 3000>>

PositionsOf(points, accuracies, times) ==
    {Position(p[1], p[2], a, t) : p \in points, a \in accuracies, t \in times}

\* a circle of half a metre around the point outside the Main Warehouse
GeofenceInputs == {Circle("Gate", 0, 1001, 1, TRUE)}

Str(s) == Some(s)
Hours(start, end) == Some([start |-> start, end |-> end])

RuleInputs ==
    { Rule("night", None, None, None,
           Hours(Str(<<"0", "0", ":", "0", "1">>), Str(<<"0", "0", ":", "0", "1">>)),
           "unauthorized_movement", "low"),
      Rule("night", None, None, None,
           Hours(Str(<<"a", "b">>), Str(<<"0", "0", ":", "0", "1">>)),
           "unauthorized_movement", "low"),
      Rule("night", None, None, None,
           Hours(Str(<<"0", "0", ":", "0", "1">>), Str(<<"1", ":">>)),
           "unauthorized_movement", "low"),
      Rule("default_speed_limit", None, Some(DefaultMaxSpeed), None, Hours(None, None),
           "speed_limit", "high"),
      Rule("crane_accuracy", Some("CRANE-001"), None, Some(Accurate), None,
           "connection_lost", "low"),
      Scoped(Rule("site_accuracy", None, None, Some(Accurate), None,
                  "connection_lost", "low"), {2}) }

TickInputs == {1801}

(***************************************************************************)
(* Spec: ingestion and geofence transitions of one equipment, the requests *)
(* served one after the other.                                             *)
(***************************************************************************)
SpecPositions ==
    PositionsOf({Outside, OnBoundary}, {Accurate}, {0, 5, 60})
        \cup PositionsOf({InRectangle}, {Inaccurate}, {0, 5, 60})

Next ==
    \/ Initialize
    \/ \E p \in SpecPositions : processPositionUpdate("FORKLIFT-001", p)
    \/ RunMicrotask
    \/ \E g \in GeofenceInputs : addGeofence(g)
    \/ \E i \in 1..3 : removeGeofence(i)

Spec == Init /\ [][Next]_vars

(***************************************************************************)
(* SpecRules: the monitoring rules, for two equipment and a moving clock.  *)
(***************************************************************************)
\* the last one is 1000 m and 10 s away from the first
RulePositions ==
    PositionsOf({OnBoundary}, {Accurate, Inaccurate}, {0})
        \cup PositionsOf({OnBoundary}, {Accurate}, {60})
        \cup PositionsOf({FarNorth}, {Accurate}, {10})

\* the call, with the bound of this specification
processPositionUpdateRules(equipmentId, position) ==
    /\ Len(calls) < MaxRuleCalls
    /\ processPositionUpdate(equipmentId, position)

NextRules ==
    \/ Initialize
    \/ \E e \in {"FORKLIFT-001", "CRANE-001"}, p \in RulePositions :
           processPositionUpdateRules(e, p)
    \/ RunMicrotask
    \/ \E r \in RuleInputs : addMonitoringRule(r)
    \/ \E r \in RuleInputs : removeMonitoringRule(r.id)
    \/ \E d \in TickInputs : Tick(d)

SpecRules == Init /\ [][NextRules]_vars

(***************************************************************************)
(* Properties.  They read the history variables calls and evaluations and  *)
(* the tags call, origin, kind, geofenceId and ruleId of the alerts.       *)
(***************************************************************************)
CallsOf(equipmentId) == {c \in 1..Len(calls) : calls[c].equipmentId = equipmentId}

\* the geofence was registered when call c started
KnownTo(c, gf) ==
    \E k \in 1..Len(calls[c].before.geofences) : calls[c].before.geofences[k] = gf

Inside(c, gf) == isPositionInGeofence(calls[c].position, gf)

GeofenceAlertsOf(equipmentId, geofenceId) ==
    SelectSeq(alerts, LAMBDA a : /\ a.type = "geofence_violation"
                                 /\ a.equipmentId = equipmentId
                                 /\ a.geofenceId = geofenceId)

KindsOf(s) == [i \in 1..Len(s) |-> s[i].kind]

\* the 'entered' alerts call c created for the geofence
EnteredBy(c, geofenceId) ==
    {i \in 1..Len(alerts) : /\ alerts[i].type = "geofence_violation"
                            /\ alerts[i].kind = "entered"
                            /\ alerts[i].call = c
                            /\ alerts[i].geofenceId = geofenceId}

\* C1: when every position an equipment has reported was accepted and lies
\* inside an active geofence that existed all along, then, once the
\* processing has finished, the alert log holds exactly one 'entered'
\* geofence_violation alert for that equipment and geofence.
C1_OneEnteredWhileInside ==
    Idle =>
        \A e \in AllEquipment : \A k \in 1..Len(geofences) :
            LET gf == geofences[k]
            IN  (/\ gf.active
                 /\ CallsOf(e) # {}
                 /\ \A c \in CallsOf(e) : /\ calls[c].outcome = "accepted"
                                          /\ KnownTo(c, gf)
                                          /\ Inside(c, gf))
                => Cardinality({i \in 1..Len(GeofenceAlertsOf(e, gf.id)) :
                                   GeofenceAlertsOf(e, gf.id)[i].kind = "entered"}) = 1

\* C2: when the three positions an equipment has reported were accepted and
\* lie inside, outside and inside an active geofence that existed all along,
\* the geofence alerts of that equipment and geofence are, in order of
\* creation, entered, exited, entered, and no other.
C2_EnteredExitedEntered ==
    Idle =>
        \A e \in AllEquipment : \A k \in 1..Len(geofences) :
            LET gf == geofences[k]
                cs == CallsOf(e)
            IN  (/\ gf.active
                 /\ Cardinality(cs) = 3
                 /\ \A c \in cs : calls[c].outcome = "accepted" /\ KnownTo(c, gf)
                 /\ \E c1, c2, c3 \in cs : /\ c1 < c2
                                           /\ c2 < c3
                                           /\ Inside(c1, gf)
                                           /\ ~Inside(c2, gf)
                                           /\ Inside(c3, gf))
                => KindsOf(GeofenceAlertsOf(e, gf.id)) = <<"entered", "exited", "entered">>

\* the pair (equipment of call c, gf) was never evaluated before call c: the
\* geofence was not registered at any earlier call of the equipment
NeverEvaluated(c, gf) ==
    \A d \in CallsOf(calls[c].equipmentId) : d < c => ~KnownTo(d, gf)

CloseToLast(c) ==
    LET prev == calls[c].before.lastPosition
        p == calls[c].position
    IN  /\ IsSome(prev)
        /\ (p.x - Val(prev).x) * (p.x - Val(prev).x)
              + (p.y - Val(prev).y) * (p.y - Val(prev).y) < UnitsPerMeter * UnitsPerMeter
        /\ p.timestamp - Val(prev).timestamp \in -9..9

\* C4: from the start of a call with a valid position that is less than 1 m
\* and less than 10 s (in either direction) away from the last accepted
\* position, and until the next call: no record is stored, the tracking state
\* (lastPosition included) is the one the call found, no event is emitted, no
\* counter but the duplicate counter changes, that one increases by one, and
\* the call ends as a duplicate, not as an error.
C4_DuplicateSuppressed ==
    \A c \in 1..Len(calls) :
        (c = Len(calls) /\ CloseToLast(c) /\ validatePosition(calls[c].position)) =>
            LET b == calls[c].before
                e == calls[c].equipmentId
            IN  /\ calls[c].outcome \in {"running", "duplicate"}
                /\ calls[c].done => calls[c].outcome = "duplicate"
                /\ Len(positionStore) = b.stored
                /\ trackingStates[e] = b.trackingState
                /\ lastPositionOf(e) = b.lastPosition
                /\ Len(emitted) = b.emitted
                /\ statisticsStore =
                       [b.statisticsStore EXCEPT !.duplicatePositionCount =
                            IF calls[c].outcome = "duplicate" THEN @ + 1 ELSE @]

\* C4 witness: a call has ended as a duplicate of a position with a later
\* timestamp.
C4_Witness ==
    \E c \in 1..Len(calls) :
        /\ c = Len(calls)
        /\ calls[c].done
        /\ CloseToLast(c)
        /\ calls[c].position.timestamp < Val(calls[c].before.lastPosition).timestamp
        /\ calls[c].outcome = "duplicate"
        /\ statisticsStore.duplicatePositionCount =
               calls[c].before.statisticsStore.duplicatePositionCount + 1

\* C5: a call whose position is classified as duplicate creates no alert,
\* and until the next call AlertService holds the last position and
\* last-seen time it held when the call started.
C5_DuplicateNotEvaluated ==
    \A c \in 1..Len(calls) :
        calls[c].outcome = "duplicate" =>
            /\ \A i \in 1..Len(alerts) : alerts[i].call # c
            /\ c = Len(calls) =>
                   lastPositions[calls[c].equipmentId] = calls[c].before.lastPositionData

\* the position of call c is older than the last accepted position
EarlierThanLast(c) ==
    /\ IsSome(calls[c].before.lastPosition)
    /\ calls[c].position.timestamp < Val(calls[c].before.lastPosition).timestamp

\* C6: until the next call, the out-of-sequence counter has grown by one at
\* most, and not at all when the timestamp of the call's position is not
\* earlier than that of the last accepted position; once the call of a valid,
\* non-duplicate position of an existing equipment with an earlier timestamp
\* has returned, the position is stored, it is the lastPosition, a
\* 'positionUpdate' event carries it and the counter has grown by one.
C6_OutOfSequenceIngested ==
    \A c \in 1..Len(calls) :
        c = Len(calls) =>
            LET b == calls[c].before
                e == calls[c].equipmentId
                p == calls[c].position
                counted == statisticsStore.outOfSequenceCount
                               - b.statisticsStore.outOfSequenceCount
            IN  /\ counted \in {0, 1}
                /\ ~EarlierThanLast(c) => counted = 0
                /\ (/\ EarlierThanLast(c)
                    /\ ~CloseToLast(c)
                    /\ validatePosition(p)
                    /\ e \in equipmentStore
                    /\ calls[c].done)
                   => /\ counted = 1
                      /\ calls[c].outcome = "accepted"
                      /\ \E i \in (b.stored + 1)..Len(positionStore) :
                             positionStore[i] = [equipmentId |-> e, position |-> p]
                      /\ lastPositionOf(e) = Some(p)
                      /\ \E i \in (b.emitted + 1)..Len(emitted) :
                             emitted[i] = [event |-> "positionUpdate",
                                           equipmentId |-> e, position |-> p]

\* C6 witness: the call of an older, non-duplicate position has returned and
\* has been counted.
C6_Witness ==
    \E c \in 1..Len(calls) :
        /\ c = Len(calls)
        /\ calls[c].done
        /\ EarlierThanLast(c)
        /\ ~CloseToLast(c)
        /\ calls[c].outcome = "accepted"
        /\ statisticsStore.outOfSequenceCount =
               calls[c].before.statisticsStore.outOfSequenceCount + 1

\* the alerts of one kind that the evaluation of rule ruleId for call c in
\* the run of the given origin created
RuleAlertsBy(c, origin, ruleId, kind) ==
    {i \in 1..Len(alerts) : /\ alerts[i].kind = kind
                            /\ alerts[i].call = c
                            /\ alerts[i].origin = origin
                            /\ alerts[i].ruleId = ruleId}

RulesAt(c) == calls[c].before.monitoringRules

\* the rule an evaluation record is about
RuleOf(ev) ==
    RulesAt(ev.call)[CHOOSE k \in 1..Len(RulesAt(ev.call)) :
                         RulesAt(ev.call)[k].id = ev.ruleId]

\* C7: once the call of an accepted position has been processed, for every
\* enabled rule with maxSpeed that applies to the equipment, when a prior
\* accepted position with an older timestamp exists: the call has created
\* exactly one speed alert for the rule if the distance between the two
\* positions divided by the seconds between their timestamps exceeds
\* maxSpeed, and none otherwise.
C7_SpeedAlert ==
    Idle =>
        \A c \in 1..Len(calls) : \A k \in 1..Len(RulesAt(c)) :
            LET r == RulesAt(c)[k]
                p == calls[c].position
                prev == calls[c].before.lastPosition
            IN  (/\ calls[c].outcome = "accepted"
                 /\ RuleApplies(r, calls[c].equipmentId)
                 /\ IsSome(r.maxSpeed)
                 /\ IsSome(prev)
                 /\ p.timestamp > Val(prev).timestamp)
                => LET reach == Val(r.maxSpeed) * (p.timestamp - Val(prev).timestamp)
                                    * UnitsPerMeter
                       created == {i \in 1..Len(alerts) : /\ alerts[i].kind = "speed"
                                                          /\ alerts[i].call = c
                                                          /\ alerts[i].ruleId = r.id}
                   IN  Cardinality(created) =
                           IF DistSq(p.x, p.y, Val(prev).x, Val(prev).y) > reach * reach
                           THEN 1 ELSE 0

\* C8: every evaluation of a rule for a position (evaluateRule, by the
\* listener's run or by the direct run) has created one accuracy alert for
\* the rule if the rule defines minAccuracy and position.accuracy is greater
\* than it, and no accuracy alert otherwise (accuracy equal to the threshold
\* included).
C8_AccuracyAlertIff ==
    Idle =>
        \A n \in 1..Len(evaluations) :
            LET ev == evaluations[n]
                r == RuleOf(ev)
                accuracy == calls[ev.call].position.accuracy
            IN  Cardinality(RuleAlertsBy(ev.call, ev.origin, ev.ruleId, "accuracy")) =
                    IF IsSome(r.minAccuracy) /\ accuracy > Val(r.minAccuracy)
                    THEN 1 ELSE 0

\* C8 witness: one evaluation of a rule met an accuracy equal to its
\* threshold, another one an accuracy above its threshold and alerted.
C8_Witness ==
    /\ Idle
    /\ \E n \in 1..Len(evaluations) :
           /\ IsSome(RuleOf(evaluations[n]).minAccuracy)
           /\ calls[evaluations[n].call].position.accuracy
                  = Val(RuleOf(evaluations[n]).minAccuracy)
    /\ \E n \in 1..Len(evaluations) :
           /\ IsSome(RuleOf(evaluations[n]).minAccuracy)
           /\ calls[evaluations[n].call].position.accuracy
                  > Val(RuleOf(evaluations[n]).minAccuracy)
           /\ RuleAlertsBy(evaluations[n].call, evaluations[n].origin,
                           evaluations[n].ruleId, "accuracy") # {}

\* a well-formed HH:MM string, and its minutes since midnight
WellFormedTime(s) ==
    /\ Len(s) = 5
    /\ s[3] = ":"
    /\ \A i \in {1, 2, 4, 5} : s[i] \in Digits
    /\ 10 * DigitVal(s[1]) + DigitVal(s[2]) < 24
    /\ 10 * DigitVal(s[4]) + DigitVal(s[5]) < 60

MinutesSinceMidnight(s) ==
    (10 * DigitVal(s[1]) + DigitVal(s[2])) * 60 + 10 * DigitVal(s[4]) + DigitVal(s[5])

\* the rules checkMonitoringRules has to evaluate for call c
ApplicableAt(c) ==
    SelectSeq(RulesAt(c), LAMBDA r : RuleApplies(r, calls[c].equipmentId))

Evaluated(c, origin, ruleId) ==
    \E n \in 1..Len(evaluations) :
        evaluations[n] = [call |-> c, origin |-> origin, ruleId |-> ruleId]

\* C9: every evaluation of a rule whose operatingHours has a start and an
\* end string: when both are well-formed HH:MM it has created one
\* operating-hours alert if the position's minutes since midnight are < start
\* or > end and none otherwise; when one of them is malformed it has created
\* no operating-hours alert and the rules after it have been evaluated in the
\* same run.
C9_OperatingHours ==
    Idle =>
        \A n \in 1..Len(evaluations) :
            LET ev == evaluations[n]
                r == RuleOf(ev)
                hours == Val(r.operatingHours)
                start == Val(hours.start)
                end == Val(hours.end)
                currentTime == CurrentTime(calls[ev.call].position.timestamp)
                created == Cardinality(RuleAlertsBy(ev.call, ev.origin, ev.ruleId, "hours"))
            IN  (IsSome(r.operatingHours) /\ IsSome(hours.start) /\ IsSome(hours.end)) =>
                    IF WellFormedTime(start) /\ WellFormedTime(end)
                    THEN created = IF \/ currentTime < MinutesSinceMidnight(start)
                                      \/ currentTime > MinutesSinceMidnight(end)
                                   THEN 1 ELSE 0
                    ELSE /\ created = 0
                         /\ \A k \in 1..Len(ApplicableAt(ev.call)) :
                                Evaluated(ev.call, ev.origin, ApplicableAt(ev.call)[k].id)

\* the runs of checkMonitoringRules a call makes: the direct one, and the
\* listener's when the position was accepted
RunsOf(c) ==
    CASE calls[c].outcome = "accepted" -> {"listener", "direct"}
      [] calls[c].outcome = "duplicate" -> {"direct"}
      [] OTHER -> {}

\* C10: once a call has been processed, each run of checkMonitoringRules it
\* made has evaluated every enabled rule that applies to the equipment, also
\* when the evaluation of one of them raised an error.
C10_IsolateAndContinue ==
    Idle =>
        \A c \in 1..Len(calls) : \A origin \in RunsOf(c) :
            \A k \in 1..Len(ApplicableAt(c)) :
                Evaluated(c, origin, ApplicableAt(c)[k].id)

\* the geofences for which call c created an entered or exited alert
TransitionsOf(c) ==
    {alerts[i].geofenceId : i \in {j \in 1..Len(alerts) :
                                       /\ alerts[j].type = "geofence_violation"
                                       /\ alerts[j].call = c}}

\* C11: every alert a rule with a non-empty conditions.geofenceIds created
\* for a position goes with an entered or exited alert of the same call for
\* one of those geofences: without such a transition the rule creates no
\* alert.
C11_ScopedRuleNeedsTransition ==
    Idle =>
        \A i \in 1..Len(alerts) :
            alerts[i].ruleId # "" =>
                LET r == RuleOf([call |-> alerts[i].call, ruleId |-> alerts[i].ruleId])
                IN  r.geofenceIds # {} =>
                        r.geofenceIds \cap TransitionsOf(alerts[i].call) # {}


(***************************************************************************)
(* SpecSweep: the periodic inactivity sweep, for two equipment and a clock *)
(* that reaches every firing of the timer.                                 *)
(***************************************************************************)
SweepPositions == PositionsOf({OnBoundary}, {Accurate, Inaccurate}, {0})

AdvanceInputs == {1, SweepIntervalSeconds - 1}

processPositionUpdateSweep(equipmentId, position) ==
    /\ Len(calls) < MaxSweepCalls
    /\ processPositionUpdate(equipmentId, position)

NextSweep ==
    \/ Initialize
    \/ \E e \in {"FORKLIFT-001", "CRANE-001"}, p \in SweepPositions :
           processPositionUpdateSweep(e, p)
    \/ RunMicrotask
    \/ checkInactiveEquipment
    \/ SweepResumed
    \/ \E d \in AdvanceInputs : Advance(d)
    \/ WaitForTimer

SpecSweep == Init /\ [][NextSweep]_vars

\* the alerts run n of the sweep created for an equipment
SweepAlerts(n, equipmentId) ==
    {i \in 1..Len(alerts) : /\ alerts[i].sweep = n
                            /\ alerts[i].equipmentId = equipmentId
                            /\ alerts[i].type = "connection_lost"}

\* seconds from the last-seen entry the run found for the equipment to the run
SinceLastSeen(n, equipmentId) ==
    sweeps[n].at - Val(sweeps[n].seen[equipmentId]).timestamp

\* C12: every finished run of the sweep has created exactly one
\* connection_lost alert for each equipment last seen more than 30 minutes
\* before the run and none for the others; an equipment with a position
\* accepted between the previous run and this one gets none from this run.
C12_InactivitySweep ==
    Idle =>
        \A n \in 1..Len(sweeps), e \in AllEquipment :
            /\ Cardinality(SweepAlerts(n, e)) =
                   IF /\ IsSome(sweeps[n].seen[e])
                      /\ SinceLastSeen(n, e) > 30 * 60
                   THEN 1 ELSE 0
            /\ (/\ n > 1
                /\ \E c \in CallsOf(e) : /\ calls[c].outcome = "accepted"
                                         /\ c > sweeps[n - 1].calls
                                         /\ c <= sweeps[n].calls)
                   => SweepAlerts(n, e) = {}

\* one run that alerts for an equipment last seen 35 minutes before, and not
\* for one last seen exactly 30 minutes before, which had a position
\* accepted since the run before
C12_Witness ==
    /\ Idle
    /\ \E n \in 2..Len(sweeps), e1, e2 \in AllEquipment :
           /\ IsSome(sweeps[n].seen[e1])
           /\ SinceLastSeen(n, e1) > 30 * 60
           /\ Cardinality(SweepAlerts(n, e1)) = 1
           /\ IsSome(sweeps[n].seen[e2])
           /\ SinceLastSeen(n, e2) = 30 * 60
           /\ SweepAlerts(n, e2) = {}
           /\ \E m \in 2..Len(sweeps), c \in CallsOf(e2) :
                  /\ calls[c].outcome = "accepted"
                  /\ c > sweeps[m - 1].calls
                  /\ c <= sweeps[m].calls
                  /\ SweepAlerts(m, e2) = {}


(***************************************************************************)
(* SpecAck: acknowledgements of the alerts of one position, with a moving  *)
(* clock.                                                                  *)
(***************************************************************************)
AlertPositions == PositionsOf({OnBoundary}, {Inaccurate}, {0})

AlertIdInputs == {1, 2, 99}
AcknowledgerInputs == {"alice", "bob"}

processPositionUpdateAlerts(equipmentId, position) ==
    /\ Len(calls) < MaxAlertCalls
    /\ processPositionUpdate(equipmentId, position)

NextAck ==
    \/ Initialize
    \/ \E p \in AlertPositions : processPositionUpdateAlerts("CRANE-001", p)
    \/ RunMicrotask
    \/ \E id \in AlertIdInputs, by \in AcknowledgerInputs : acknowledgeAlert(id, by)
    \/ \E d \in TickInputs : Tick(d)

SpecAck == Init /\ [][NextAck]_vars

(***************************************************************************)
(* SpecAlerts: the alert log under position processing, sweeps,            *)
(* acknowledgements and geofence and rule changes.                         *)
(***************************************************************************)
AlertRuleInputs == {Rule("crane_accuracy", Some("CRANE-001"), None, Some(Accurate), None,
                         "connection_lost", "low")}

acknowledgeAlertOnce(alertId, acknowledgedBy) ==
    /\ Len(opLog) < MaxAlertLog
    /\ acknowledgeAlert(alertId, acknowledgedBy)

NextAlerts ==
    \/ Initialize
    \/ \E p \in AlertPositions : processPositionUpdateAlerts("CRANE-001", p)
    \/ RunMicrotask
    \/ checkInactiveEquipment
    \/ SweepResumed
    \/ WaitForTimer
    \/ \E id \in AlertIdInputs : acknowledgeAlertOnce(id, "alice")
    \/ \E g \in GeofenceInputs : addGeofence(g)
    \/ \E i \in 1..3 : removeGeofence(i)
    \/ \E r \in AlertRuleInputs : addMonitoringRule(r)
    \/ \E r \in AlertRuleInputs : removeMonitoringRule(r.id)

SpecAlerts == Init /\ [][NextAlerts]_vars

\* the acknowledgeAlert requests made so far
Acknowledgements == {n \in 1..Len(opLog) : opLog[n].op = "acknowledgeAlert"}

\* the successful ones for an alert id
Acknowledged(alertId) ==
    {n \in Acknowledgements : opLog[n].alertId = alertId /\ opLog[n].result = "ok"}

\* C13: a request for an id no alert had when it was made has failed with
\* not-found; one for an alert acknowledged before has failed with
\* already-acknowledged; any other has succeeded.  An alert has at most one
\* successful acknowledgement, and it carries the acknowledger and the time
\* of that one whatever was requested afterwards.
C13_AcknowledgeOnce ==
    /\ \A n \in Acknowledgements :
           LET known == \E i \in 1..opLog[n].alerts : alerts[i].id = opLog[n].alertId
               before == {m \in Acknowledged(opLog[n].alertId) : m < n}
           IN  opLog[n].result = IF ~known THEN "not_found"
                                 ELSE IF before # {} THEN "already_acknowledged"
                                 ELSE "ok"
    /\ \A i \in 1..Len(alerts) :
           /\ Cardinality(Acknowledged(alerts[i].id)) <= 1
           /\ Acknowledged(alerts[i].id) = {} =>
                  /\ ~alerts[i].acknowledged
                  /\ alerts[i].acknowledgedBy = None
                  /\ alerts[i].acknowledgedAt = None
           /\ \A n \in Acknowledged(alerts[i].id) :
                  /\ alerts[i].acknowledged
                  /\ alerts[i].acknowledgedBy = Some(opLog[n].by)
                  /\ alerts[i].acknowledgedAt = Some(opLog[n].at)

\* an alert acknowledged by one user and later, at another time, refused to
\* another, and a request for an id that no alert has
C13_Witness ==
    \E n, m, k \in Acknowledgements :
        /\ opLog[n].result = "ok"
        /\ m > n
        /\ opLog[m].alertId = opLog[n].alertId
        /\ opLog[m].result = "already_acknowledged"
        /\ opLog[m].by # opLog[n].by
        /\ opLog[m].at # opLog[n].at
        /\ opLog[k].result = "not_found"

\* C14: a step never removes an alert nor changes the id, equipment, type,
\* severity, message or timestamp of one, never clears an acknowledged flag,
\* and leaves the ids pairwise distinct.
C14_AppendOnly ==
    [][/\ Len(alerts') >= Len(alerts)
       /\ \A i \in 1..Len(alerts) :
              /\ alerts'[i].id = alerts[i].id
              /\ alerts'[i].equipmentId = alerts[i].equipmentId
              /\ alerts'[i].type = alerts[i].type
              /\ alerts'[i].severity = alerts[i].severity
              /\ alerts'[i].kind = alerts[i].kind
              /\ alerts'[i].geofenceId = alerts[i].geofenceId
              /\ alerts'[i].ruleId = alerts[i].ruleId
              /\ alerts'[i].actual = alerts[i].actual
              /\ alerts'[i].timestamp = alerts[i].timestamp
              /\ alerts[i].acknowledged => alerts'[i].acknowledged
       /\ \A i, j \in 1..Len(alerts') : alerts'[i].id = alerts'[j].id => i = j]_vars

\* alerts of a position, of a rule and of a sweep, one of them acknowledged,
\* after two geofence or rule changes
C14_Witness ==
    /\ Idle
    /\ \E i, j, k \in 1..Len(alerts) :
           /\ alerts[i].type = "geofence_violation"
           /\ alerts[j].ruleId # ""
           /\ alerts[k].origin = "sweep"
           /\ alerts[i].acknowledged
    /\ opCount = MaxOps


(***************************************************************************)
(* SpecTracking: valid and invalid positions of one equipment, and         *)
(* requests to stop tracking it.                                           *)
(***************************************************************************)
\* one unit north of latitude 90, one unit east of longitude 180, and an
\* accuracy of minus half a metre
InvalidPositions ==
    {Position(0, MaxY + 1, Accurate, 60), Position(MaxX + 1, 0, Accurate, 60),
     Position(0, 1000, -1, 60)}

TrackingPositions ==
    PositionsOf({OnBoundary}, {Accurate}, {0})
        \cup PositionsOf({Outside}, {Inaccurate}, {60})
        \cup PositionsOf({OnBoundary}, {Accurate}, {120})
        \cup InvalidPositions

NextTracking ==
    \/ Initialize
    \/ \E p \in TrackingPositions : processPositionUpdate("FORKLIFT-001", p)
    \/ RunMicrotask
    \/ stopTracking("FORKLIFT-001")

SpecTracking == Init /\ [][NextTracking]_vars

\* latitude outside [-90,90], longitude outside [-180,180] or negative accuracy
OutOfRange(position) ==
    \/ position.y < MinY
    \/ position.y > MaxY
    \/ position.x < MinX
    \/ position.x > MaxX
    \/ position.accuracy < 0

\* the label updateConnectionQuality derives from the consecutive errors
QualityOf(errors) == IF errors > 10 THEN "poor" ELSE IF errors > 5 THEN "fair" ELSE "good"

\* C15: from the start of a call with a latitude or longitude out of range
\* or a negative accuracy, and until the next request: the call ends with an
\* error; no record is stored, the equipment's lastPosition and isTracking
\* are the ones the call found, no event is emitted, AlertService is not
\* reached; the invalid-position counter and the error log grow by one, the
\* equipment's consecutive errors (with the quality label derived from
\* them) by one, and no other counter moves.
C15_InvalidRejected ==
    \A c \in 1..Len(calls) :
        (/\ c = Len(calls)
         /\ \A n \in 1..Len(opLog) : opLog[n].calls < c
         /\ OutOfRange(calls[c].position)) =>
            LET b == calls[c].before
                e == calls[c].equipmentId
                rejected == calls[c].outcome = "invalid"
            IN  /\ calls[c].outcome \in {"running", "invalid"}
                /\ calls[c].done => rejected
                /\ Len(positionStore) = b.stored
                /\ lastPositionOf(e) = b.lastPosition
                /\ Len(emitted) = b.emitted
                /\ Len(alerts) = b.alerts
                /\ lastPositions[e] = b.lastPositionData
                /\ statisticsStore =
                       [b.statisticsStore EXCEPT
                            !.invalidPositionCount = IF rejected THEN @ + 1 ELSE @,
                            !.errorLog = IF rejected THEN @ + 1 ELSE @]
                /\ IsSome(trackingStates[e]) = IsSome(b.trackingState)
                /\ IsSome(b.trackingState) =>
                       trackingStates[e] =
                           IF rejected
                           THEN Some([Val(b.trackingState) EXCEPT
                                          !.consecutiveErrors = @ + 1,
                                          !.connectionQuality =
                                              QualityOf(Val(b.trackingState).consecutiveErrors + 1)])
                           ELSE b.trackingState

\* a call with a negative accuracy and nothing else wrong has been rejected
\* for an equipment that had a last position
C15_Witness ==
    \E c \in 1..Len(calls) :
        /\ c = Len(calls)
        /\ calls[c].done
        /\ calls[c].position.accuracy < 0
        /\ calls[c].position.y <= MaxY
        /\ calls[c].outcome = "invalid"
        /\ \A n \in 1..Len(opLog) : opLog[n].calls < c
        /\ IsSome(calls[c].before.lastPosition)
        /\ statisticsStore.invalidPositionCount =
               calls[c].before.statisticsStore.invalidPositionCount + 1

\* the stopTracking requests made so far
Stops == {n \in 1..Len(opLog) : opLog[n].op = "stopTracking"}

\* the calls for the equipment of request n that started after it
CallsAfter(n) == {c \in CallsOf(opLog[n].equipmentId) : c > opLog[n].calls}

\* C17: of the calls for an equipment that start after a stopTracking
\* request for it, at most one is accepted; once two of them have started
\* and everything has finished, the equipment is not tracking.
C17_StopSemantics ==
    \A n \in Stops :
        /\ Cardinality({c \in CallsAfter(n) : calls[c].outcome = "accepted"}) <= 1
        /\ (Idle /\ Cardinality(CallsAfter(n)) >= 2) => ~isTracking(opLog[n].equipmentId)


(***************************************************************************)
(* SpecGeofences: geofences of the three kinds added and removed between   *)
(* the positions of one equipment.  SpecActivation: the sample geofences   *)
(* activated and deactivated between them.                                 *)
(***************************************************************************)
\* the square with the corners (0,0), (0,10), (10,10), (10,0)
Yard ==
    Polygon("Yard", <<[x |-> 0, y |-> 0], [x |-> 10, y |-> 0],
                      [x |-> 10, y |-> 10], [x |-> 0, y |-> 10]>>, TRUE)

KindInputs == GeofenceInputs \cup {Yard}

GeofenceIdInputs == {1, 3}

\* (5,5) and (15,15), both inside the Main Warehouse, and a point outside it
KindPositions ==
    PositionsOf({<<5, 5>>}, {Accurate}, {0})
        \cup PositionsOf({<<15, 15>>}, {Inaccurate}, {60})
        \cup PositionsOf({Outside}, {Accurate}, {120})

processPositionUpdateGeofences(equipmentId, position) ==
    /\ Len(calls) < MaxGeofenceCalls
    /\ processPositionUpdate(equipmentId, position)

NextGeofences ==
    \/ Initialize
    \/ \E p \in KindPositions : processPositionUpdateGeofences("FORKLIFT-001", p)
    \/ RunMicrotask
    \/ \E g \in KindInputs : addGeofence(g)
    \/ \E i \in GeofenceIdInputs : removeGeofence(i)
    \/ \E i \in GeofenceIdInputs : removeGeofenceMissing(i)

SpecGeofences == Init /\ [][NextGeofences]_vars

NextActivation ==
    \/ Initialize
    \/ \E p \in KindPositions : processPositionUpdateGeofences("FORKLIFT-001", p)
    \/ RunMicrotask
    \/ \E i \in GeofenceIdInputs : deactivate(i)
    \/ \E i \in GeofenceIdInputs : activate(i)

SpecActivation == Init /\ [][NextActivation]_vars

IdsOf(gfs) == {gfs[i].id : i \in 1..Len(gfs)}

\* gfs without its element at index i
Without(gfs, i) == SubSeq(gfs, 1, i - 1) \o SubSeq(gfs, i + 1, Len(gfs))

\* C16: a removeGeofence step for an id that no geofence has logs a
\* not-found failure and leaves the geofences as they were; one for a
\* present id takes out the geofence with that id and leaves the others, in
\* their order; a geofence that appears gets an id the counter has not
\* handed out yet, the counter is above every id in use and never goes back.
C16_RemoveGeofence ==
    [][/\ \A id \in GeofenceIdInputs :
              /\ removeGeofenceMissing(id) =>
                     /\ id \notin IdsOf(geofences)
                     /\ opLog'[Len(opLog')].result = "not_found"
                     /\ geofences' = geofences
              /\ removeGeofence(id) =>
                     /\ id \in IdsOf(geofences)
                     /\ \E i \in 1..Len(geofences) :
                            /\ geofences[i].id = id
                            /\ geofences' = Without(geofences, i)
                     /\ id \notin IdsOf(geofences')
       /\ \A j \in 1..Len(geofences') :
              (~ \E i \in 1..Len(geofences) : geofences[i] = geofences'[j]) =>
                  /\ geofences'[j].id >= geofenceIdCounter
                  /\ geofences'[j].id < geofenceIdCounter'
       /\ \A i \in 1..Len(geofences) : geofences[i].id < geofenceIdCounter
       /\ geofenceIdCounter' >= geofenceIdCounter]_vars

\* a geofence was removed, a removal of the same id was then refused, and a
\* geofence added afterwards has another id
C16_Witness ==
    \E n \in 1..Len(opLog), j \in 1..Len(geofences) :
        /\ opLog[n].op = "removeGeofence"
        /\ opLog[n].result = "not_found"
        /\ opLog[n].geofenceId < geofenceIdCounter
        /\ opLog[n].geofenceId \notin IdsOf(geofences)
        /\ geofences[j].id > opLog[n].geofenceId
        /\ geofences[j].name \in {"Gate", "Yard"}

\* the last activate or deactivate request for the geofence that succeeded
\* before call c started is a deactivate
InactiveAt(c, geofenceId) ==
    LET requests == {n \in 1..Len(opLog) :
                        /\ opLog[n].op \in {"activate", "deactivate"}
                        /\ opLog[n].geofenceId = geofenceId
                        /\ opLog[n].result = "ok"
                        /\ opLog[n].calls < c}
    IN  /\ requests # {}
        /\ opLog[CHOOSE n \in requests : \A m \in requests : m <= n].op = "deactivate"

\* C19: no entered or exited alert exists for a geofence from a position
\* whose call started while the geofence was deactivated.
C19_InactiveExcluded ==
    \A i \in 1..Len(alerts) :
        alerts[i].type = "geofence_violation" =>
            ~InactiveAt(alerts[i].call, alerts[i].geofenceId)

\* C20: for every accepted position and every geofence that was active when
\* its call started, the containment AlertService uses for the transitions
\* is the one of the geofence's kind (for a polygon: ray casting), which is
\* the one GeofenceController.testPosition reports.
C20_ContainmentByKind ==
    \A c \in 1..Len(calls) :
        calls[c].outcome = "accepted" =>
            \A k \in 1..Len(calls[c].before.geofences) :
                LET gf == calls[c].before.geofences[k]
                    position == calls[c].position
                IN  gf.active =>
                        isPositionInGeofence(position, gf) =
                            controllerIsPositionInGeofence(position.y, position.x, gf)


(***************************************************************************)
(* SpecOverlapping: two calls for one equipment, the second started either *)
(* after the first has finished or before the first has got anywhere.      *)
(***************************************************************************)
OverlappingPositions ==
    PositionsOf({OnBoundary}, {Inaccurate}, {0})
        \cup PositionsOf({Outside}, {Accurate}, {60})

NextOverlapping ==
    \/ Initialize
    \/ \E p \in OverlappingPositions : processPositionUpdate("FORKLIFT-001", p)
    \/ \E p \in OverlappingPositions : processPositionUpdateOverlapping("FORKLIFT-001", p)
    \/ RunMicrotask

SpecOverlapping == Init /\ [][NextOverlapping]_vars

\* C18: of two accepted positions of an equipment, the transition and rule
\* alerts of the one accepted first (the one of the earlier call: the job
\* queue is first in, first out) all precede the alerts of the other in the
\* alert log.
C18_PerEquipmentOrder ==
    \A i, j \in 1..Len(alerts) :
        (/\ alerts[i].call # 0
         /\ alerts[j].call # 0
         /\ alerts[i].call < alerts[j].call
         /\ calls[alerts[i].call].equipmentId = calls[alerts[j].call].equipmentId
         /\ calls[alerts[i].call].outcome = "accepted"
         /\ calls[alerts[j].call].outcome = "accepted")
            => i < j


(***************************************************************************)
(* SpecHistory: one Equipment object and more recordPosition calls than    *)
(* its history holds.  The n-th position is n units east, n seconds late.  *)
(***************************************************************************)
RecordInputs ==
    {Position(Len(recorded) + 1, 0, Accurate, Len(recorded) + 1),
     Position(0, MaxY + 1, Accurate, Len(recorded) + 1)}

NextHistory == \E p \in RecordInputs : recordPosition(p)

SpecHistory == Init /\ [][NextHistory]_vars

\* C21: the history holds the last min(n, 100) of the n recorded positions,
\* in recording order; after 101 it holds 100, the first recorded one gone;
\* lastPosition is the last recorded position.
C21_BoundedFifoHistory ==
    LET n == Len(recorded)
        k == IF n < 100 THEN n ELSE 100
        history == equipmentModel.positionHistory
    IN  /\ Len(history) = k
        /\ \A i \in 1..k : history[i] = recorded[n - k + i]
        /\ n = 101 => /\ Len(history) = 100
                      /\ history[1] = recorded[2]
                      /\ \A i \in 1..100 : history[i] # recorded[1]
        /\ equipmentModel.lastPosition = IF n = 0 THEN None ELSE Some(recorded[n])

\* 101 positions have been recorded
C21_Witness ==
    /\ Len(recorded) = 101
    /\ Len(equipmentModel.positionHistory) = 100
    /\ equipmentModel.positionHistory[1] = recorded[2]


\* the events the latest call has emitted
EmittedBy(c) == SubSeq(emitted, calls[c].before.emitted + 1, Len(emitted))

\* more than 0.5 m/s from the previous accepted position to the position of
\* call c: twice the distance in metres exceeds the elapsed seconds
FasterThanHalfMeterPerSecond(c) ==
    LET prev == Val(calls[c].before.lastPosition)
        p == calls[c].position
        dt == p.timestamp - prev.timestamp
    IN  4 * ((p.x - prev.x) * (p.x - prev.x) + (p.y - prev.y) * (p.y - prev.y))
            > (UnitsPerMeter * dt) * (UnitsPerMeter * dt)

\* C22: a finished call that accepted a position later than the previous
\* accepted position of the equipment has emitted 'movementDetected' if and
\* only if the speed between the two exceeds 0.5 m/s.
C22_MovementDetected ==
    \A c \in 1..Len(calls) :
        (/\ c = Len(calls)
         /\ calls[c].done
         /\ calls[c].outcome = "accepted"
         /\ IsSome(calls[c].before.lastPosition)
         /\ calls[c].position.timestamp > Val(calls[c].before.lastPosition).timestamp)
            => ((\E k \in 1..Len(EmittedBy(c)) : EmittedBy(c)[k].event = "movementDetected")
                    <=> FasterThanHalfMeterPerSecond(c))


(***************************************************************************)
(* SpecBulk: one bulk request of up to three items, among them invalid     *)
(* positions and positions of an equipment that does not exist.            *)
(***************************************************************************)
BulkItem(equipmentId, position) == [equipmentId |-> equipmentId, position |-> position]

BulkItems ==
    {BulkItem("FORKLIFT-001", Position(0, 1000, Inaccurate, 0)),
     BulkItem("FORKLIFT-001", Position(0, 1001, Accurate, 60)),
     BulkItem("FORKLIFT-001", Position(0, 1000, -1, 60)),
     BulkItem("UNKNOWN-001", Position(0, 1000, Accurate, 0))}

BulkInputs ==
    UNION {[1..n -> BulkItems] : n \in 1..MaxBulkItems}

NextBulk ==
    \/ Initialize
    \/ \E positions \in BulkInputs : bulkCreate(positions)
    \/ RunMicrotask
    \/ BulkResumed

SpecBulk == Init /\ [][NextBulk]_vars

\* the call made for item k of the request answered by response r
CallOfItem(r, k) == responses[r].first + k - 1

\* the item is a position in range for an equipment that exists
ValidItem(item) ==
    /\ ~OutOfRange(item.position)
    /\ item.equipmentId \in SampleEquipment

\* C23: a response accounts for every item of its request: one call per
\* item, in the order of the request; created + errors = items; the errors
\* are the items whose call was rejected; and every valid item was taken
\* (accepted, or dropped as a duplicate of the last accepted position),
\* whatever happened to the items before it.
C23_BulkContinues ==
    \A r \in 1..Len(responses) :
        LET items == responses[r].positions
            rejected == {k \in 1..Len(items) :
                            calls[CallOfItem(r, k)].outcome \in {"invalid", "failed"}}
        IN  /\ CallOfItem(r, Len(items)) <= Len(calls)
            /\ \A k \in 1..Len(items) :
                   /\ calls[CallOfItem(r, k)].equipmentId = items[k].equipmentId
                   /\ calls[CallOfItem(r, k)].position = items[k].position
                   /\ calls[CallOfItem(r, k)].done
                   /\ ValidItem(items[k]) =>
                          /\ k \notin rejected
                          /\ ~CloseToLast(CallOfItem(r, k)) =>
                                 calls[CallOfItem(r, k)].outcome = "accepted"
            /\ responses[r].created + Len(responses[r].errors) = Len(items)
            /\ Len(responses[r].errors) = Cardinality(rejected)
            /\ \A n \in 1..Len(responses[r].errors) : responses[r].errors[n] \in rejected

\* a request whose first two items failed, one for its position and one
\* for its equipment, and whose third item was accepted
C23_Witness ==
    \E r \in 1..Len(responses) :
        /\ Len(responses[r].positions) = 3
        /\ calls[CallOfItem(r, 1)].outcome \in {"invalid", "failed"}
        /\ calls[CallOfItem(r, 2)].outcome \in {"invalid", "failed"}
        /\ calls[CallOfItem(r, 1)].outcome # calls[CallOfItem(r, 2)].outcome
        /\ calls[CallOfItem(r, 3)].outcome = "accepted"
        /\ responses[r].created = 1
        /\ responses[r].errors = <<1, 2>>


(***************************************************************************)
(* SpecFlag: requests to start and to stop tracking an equipment that      *)
(* exists and one that does not, between the positions of the first.       *)
(***************************************************************************)
FlagEquipment == {"FORKLIFT-001", "UNKNOWN-001"}

FlagPositions ==
    PositionsOf({OnBoundary}, {Accurate}, {0})
        \cup PositionsOf({Outside}, {Inaccurate}, {60})

processPositionUpdateFlag(equipmentId, position) ==
    /\ Len(calls) < MaxFlagCalls
    /\ processPositionUpdate(equipmentId, position)

NextFlag ==
    \/ Initialize
    \/ \E p \in FlagPositions : processPositionUpdateFlag("FORKLIFT-001", p)
    \/ RunMicrotask
    \/ \E e \in FlagEquipment : startTracking(e)
    \/ StartResumed
    \/ \E e \in FlagEquipment : stopTracking(e)

SpecFlag == Init /\ [][NextFlag]_vars

\* the request that a step answers
Answered(op, result) ==
    /\ Len(opLog') = Len(opLog) + 1
    /\ opLog'[Len(opLog')].op = op
    /\ opLog'[Len(opLog')].result = result

Answer == opLog'[Len(opLog')]

\* C24: an id without tracking state is not tracking; startTracking
\* succeeds exactly for the equipment that exists and then the equipment is
\* tracking, whatever it was before; after stopTracking it is not tracking;
\* a rejected startTracking, and a stopTracking of an id without tracking
\* state, leave the map of tracking states as it was.
C24_TrackingFlag ==
    [][/\ \A e \in AllEquipment : ~IsSome(trackingStates[e]) => ~isTracking(e)
       /\ Answered("startTracking", "ok") =>
              /\ Answer.equipmentId \in equipmentStore
              /\ IsSome(trackingStates'[Answer.equipmentId])
              /\ Val(trackingStates'[Answer.equipmentId]).isTracking
              /\ \A e \in AllEquipment \ {Answer.equipmentId} :
                     trackingStates'[e] = trackingStates[e]
       /\ Answered("startTracking", "not_found") =>
              /\ Answer.equipmentId \notin equipmentStore
              /\ trackingStates' = trackingStates
       /\ Answered("stopTracking", "ok") =>
              /\ IF IsSome(trackingStates[Answer.equipmentId])
                 THEN /\ IsSome(trackingStates'[Answer.equipmentId])
                      /\ ~Val(trackingStates'[Answer.equipmentId]).isTracking
                 ELSE trackingStates' = trackingStates
              /\ \A e \in AllEquipment \ {Answer.equipmentId} :
                     trackingStates'[e] = trackingStates[e]
      ]_vars

\* a start for the equipment that does not exist was rejected and left no
\* state; the other equipment was started and is tracking, then stopped and
\* is not
C24_Witness ==
    /\ Len(opLog) = 3
    /\ opLog[1].op = "startTracking" /\ opLog[1].result = "not_found"
    /\ ~IsSome(trackingStates[opLog[1].equipmentId])
    /\ opLog[2].op = "startTracking" /\ opLog[2].result = "ok"
    /\ opLog[3].op = "stopTracking" /\ opLog[3].equipmentId = opLog[2].equipmentId
    /\ IsSome(trackingStates[opLog[3].equipmentId])
    /\ ~isTracking(opLog[3].equipmentId)


(***************************************************************************)
(* SpecRate: the requests of two users through one rate limit, and the     *)
(* clock moving to the end of the window or beyond it.                     *)
(***************************************************************************)
RateTickInputs == {windowSeconds, windowSeconds + 1}

NextRate ==
    \/ \E u \in Users : userRateLimit(u)
    \/ \E d \in RateTickInputs : Tick(d)

SpecRate == Init /\ [][NextRate]_vars

\* the requests of the user of request n before it
Earlier(n) == {m \in 1..(n - 1) : limited[m].userId = limited[n].userId}

\* when the window of request n began: with the request itself when it is
\* the user's first or comes after the window of the one before has
\* expired, and with that window otherwise
RECURSIVE WindowStart(_)
WindowStart(n) ==
    IF Earlier(n) = {} THEN limited[n].at
    ELSE LET m == CHOOSE m \in Earlier(n) : \A o \in Earlier(n) : o <= m
         IN  IF limited[n].at > WindowStart(m) + windowSeconds
             THEN limited[n].at
             ELSE WindowStart(m)

\* request n is the k-th of its user in its window
NumberInWindow(n) ==
    Cardinality({m \in Earlier(n) \cup {n} : WindowStart(m) = WindowStart(n)})

\* C25: the k-th request of a user in a window passes with the headers
\* Limit = maxRequests and Remaining = maxRequests - k when k <= maxRequests,
\* and is refused with 429 when k = maxRequests + 1.
C25_UserRateLimit ==
    \A n \in 1..Len(limited) :
        LET k == NumberInWindow(n)
        IN  /\ k <= maxRequests =>
                   /\ limited[n].status = 200
                   /\ IsSome(limited[n].headers)
                   /\ Val(limited[n].headers).limit = maxRequests
                   /\ Val(limited[n].headers).remaining = maxRequests - k
            /\ k = maxRequests + 1 => limited[n].status = 429


(***************************************************************************)
(* Movement analysis: EquipmentService.getEquipmentMovementAnalysis reads  *)
(* the stored positions of an equipment, records them on a fresh Equipment *)
(* and returns its analyzeMovement().                                      *)
(***************************************************************************)
\* the stored positions of an equipment, in the order they were stored
StoredOf(store, equipmentId) ==
    LET mine == SelectSeq(store, LAMBDA r : r.equipmentId = equipmentId)
    IN  [n \in 1..Len(mine) |-> mine[n].position]

\* Array.prototype.sort with (a, b) => b.timestamp - a.timestamp: a stable
\* sort, newest first
RECURSIVE NewestFirst(_)
NewestFirst(positions) ==
    IF positions = <<>> THEN <<>>
    ELSE LET sorted == NewestFirst(SubSeq(positions, 1, Len(positions) - 1))
             last == positions[Len(positions)]
             before == SelectSeq(sorted, LAMBDA q : q.timestamp >= last.timestamp)
             after == SelectSeq(sorted, LAMBDA q : q.timestamp < last.timestamp)
         IN  before \o <<last>> \o after

\* BaseRepository.applyPagination
applyPagination(items, page, limit) ==
    SubSeq(items, (page - 1) * limit + 1,
           IF Len(items) < page * limit THEN Len(items) ELSE page * limit)

\* a findByEquipmentId that returns the positions oldest first
findByEquipmentId_OldestFirst(store, equipmentId) ==
    LET newest == NewestFirst(StoredOf(store, equipmentId))
    IN  applyPagination([n \in 1..Len(newest) |-> newest[Len(newest) + 1 - n]],
                        1, AnalysisPageLimit)

\* PositionRepository.findByEquipmentId with {page: 1, limit: 1000}
findByEquipmentId(store, equipmentId) ==
    applyPagination(NewestFirst(StoredOf(store, equipmentId)), 1, AnalysisPageLimit)

\* the whole part of the square root
Isqrt(n) == CHOOSE r \in 0..n : r * r <= n /\ (r + 1) * (r + 1) > n

\* Position.distanceTo, in units, rounded down
distanceTo(a, b) == Isqrt(DistSq(a.x, a.y, b.x, b.y))

\* speed > Constants.MOVEMENT_SPEED_THRESHOLD (0.5 m/s, one unit a second)
FasterThanThreshold(distance, timeDiff) == distance > timeDiff

\* the loop of Equipment.analyzeMovement from pair i on
RECURSIVE analyzeFrom(_, _, _)
analyzeFrom(positions, i, acc) ==
    IF i > Len(positions) THEN acc
    ELSE LET current == positions[i]
             previous == positions[i - 1]
             distance == distanceTo(current, previous)
             timeDiff == current.timestamp - previous.timestamp
             moving == timeDiff > 0 /\ FasterThanThreshold(distance, timeDiff)
             stopped == timeDiff > 0 /\ ~FasterThanThreshold(distance, timeDiff)
         IN  analyzeFrom(positions, i + 1,
                         [totalDistance |-> acc.totalDistance + distance,
                          movingTime |-> acc.movingTime + IF moving THEN timeDiff ELSE 0,
                          stoppedTime |-> acc.stoppedTime + IF stopped THEN timeDiff ELSE 0])

NoMovement == [totalDistance |-> 0, movingTime |-> 0, stoppedTime |-> 0]

\* Equipment.analyzeMovement without a time range
analyzeMovement(positions) ==
    IF Len(positions) < 2 THEN NoMovement
    ELSE analyzeFrom(positions, 2, NoMovement)

\* `for (const pos of positions.data) equipment.recordPosition(...)` on a
\* new Equipment
RECURSIVE recordAll(_, _, _)
recordAll(equipment, positions, i) ==
    IF i > Len(positions) THEN equipment
    ELSE recordAll(recordPositionOn(equipment, positions[i]), positions, i + 1)

\* EquipmentService.getEquipmentMovementAnalysis without a time range
movementAnalysis(store, equipmentId) ==
    LET data == findByEquipmentId(store, equipmentId)
    IN  IF Len(data) < 2 THEN NoMovement
        ELSE analyzeMovement(recordAll([positionHistory |-> <<>>, lastPosition |-> None],
                                       data, 1).positionHistory)

\* the request; it throws for an equipment that does not exist
getEquipmentMovementAnalysis(equipmentId) ==
    /\ Idle
    /\ Len(analyses) < MaxAnalyses
    /\ equipmentId \in equipmentStore
    /\ analyses' = Append(analyses,
                          [equipmentId |-> equipmentId,
                           stored |-> StoredOf(positionStore, equipmentId),
                           result |-> movementAnalysis(positionStore, equipmentId)])
    /\ UNCHANGED serviceVars
    /\ UNCHANGED <<equipmentVars, bulkVars, rateVars, simulationVars>>

\* PositionRepository.create
create(equipmentId, position) ==
    /\ Idle
    /\ Len(positionStore) < Len(SamplePositions) + MaxCreated
    /\ PositionValidate(position)
    /\ positionStore' = Append(positionStore,
                               [equipmentId |-> equipmentId, position |-> position])
    /\ UNCHANGED <<now, microtasks, calls, trackingStates, statisticsStore, emitted>>
    /\ UNCHANGED configVars
    /\ UNCHANGED alertVars

(***************************************************************************)
(* SpecAnalysis: positions stored one a minute after the sample positions, *)
(* at rest, 5 m or 100 m east of the one before, and an analysis.          *)
(***************************************************************************)
\* the next position: a minute after the last stored one of the equipment
CreateInputs(equipmentId) ==
    LET stored == StoredOf(positionStore, equipmentId)
        last == IF stored = <<>> THEN Position(0, 0, Accurate, -60)
                ELSE stored[Len(stored)]
    IN  {Position(last.x + d, last.y, Accurate, last.timestamp + 60) :
            d \in {0, 5 * UnitsPerMeter, 100 * UnitsPerMeter}}

AnalysisEquipment == {"FORKLIFT-001", "CRANE-001", "BULLDOZER-001"}

NextAnalysis ==
    \/ \E e \in AnalysisEquipment : \E p \in CreateInputs(e) : create(e, p)
    \/ \E e \in AnalysisEquipment : getEquipmentMovementAnalysis(e)

SpecAnalysis == Init /\ [][NextAnalysis]_vars

\* timestamps strictly increasing along the sequence
StrictlyIncreasing(positions) ==
    \A n \in 1..(Len(positions) - 1) : positions[n].timestamp < positions[n + 1].timestamp

Pairs(positions) == 1..(Len(positions) - 1)

RECURSIVE Sum(_, _)
Sum(f, S) ==
    IF S = {} THEN 0
    ELSE LET n == CHOOSE n \in S : TRUE IN f[n] + Sum(f, S \ {n})

PairDistance(positions) ==
    [n \in Pairs(positions) |-> distanceTo(positions[n + 1], positions[n])]

PairTime(positions) ==
    [n \in Pairs(positions) |-> positions[n + 1].timestamp - positions[n].timestamp]

MovingPairs(positions) ==
    {n \in Pairs(positions) :
        FasterThanThreshold(PairDistance(positions)[n], PairTime(positions)[n])}

\* C26: for an equipment with at least two stored positions of strictly
\* increasing timestamps, totalDistance is the sum of the distances of
\* consecutive pairs, movingTime the sum of the time differences of the
\* pairs faster than 0.5 m/s, stoppedTime the sum of the others, and
\* movingTime + stoppedTime the time between the first and the last.
C26_MovementAnalysis ==
    \A a \in 1..Len(analyses) :
        LET stored == analyses[a].stored
            result == analyses[a].result
        IN  (Len(stored) >= 2 /\ StrictlyIncreasing(stored)) =>
                /\ result.totalDistance = Sum(PairDistance(stored), Pairs(stored))
                /\ result.movingTime = Sum(PairTime(stored), MovingPairs(stored))
                /\ result.stoppedTime =
                       Sum(PairTime(stored), Pairs(stored) \ MovingPairs(stored))
                /\ result.movingTime + result.stoppedTime =
                       stored[Len(stored)].timestamp - stored[1].timestamp


(***************************************************************************)
(* The records and the alerts of one accepted or rejected position.        *)
(***************************************************************************)
\* PositionRepository.getPositionCount
getPositionCount(store, equipmentId) == Len(StoredOf(store, equipmentId))

\* the store as call c found it
StoreBefore(c) == SubSeq(positionStore, 1, calls[c].before.stored)

\* call c is the latest and has returned
LatestReturned(c) == c = Len(calls) /\ calls[c].done

\* C27: when the latest call has returned and its position was accepted,
\* the position count of its equipment is one more than the call found.
C27_OneRecordPerAccepted ==
    \A c \in 1..Len(calls) :
        (LatestReturned(c) /\ calls[c].outcome = "accepted") =>
            getPositionCount(positionStore, calls[c].equipmentId) =
                getPositionCount(StoreBefore(c), calls[c].equipmentId) + 1

\* C28: when the latest call has returned and was rejected because its
\* equipment does not exist, the repository holds the records the call found
\* and the tracking state of the id is the one the call found.
C28_AllOrNothing ==
    \A c \in 1..Len(calls) :
        (LatestReturned(c) /\ calls[c].outcome = "failed") =>
            /\ positionStore = StoreBefore(c)
            /\ trackingStates[calls[c].equipmentId] = calls[c].before.trackingState

\* the geofence_violation alerts call c created for the geofence
CrossingAlerts(c, geofenceId) ==
    {i \in 1..Len(alerts) : /\ alerts[i].type = "geofence_violation"
                            /\ alerts[i].call = c
                            /\ alerts[i].geofenceId = geofenceId}

\* the position of call c is on the other side of the boundary than the
\* last position AlertService had of the equipment
Crosses(c, gf) == wasInside(calls[c].before.lastPositionData, gf) # Inside(c, gf)

\* C29: once everything has finished, an accepted position has one
\* geofence_violation alert for each active geofence whose boundary it
\* crossed, and none for the others.
C29_OneAlertPerCrossing ==
    Idle =>
        \A c \in 1..Len(calls) :
            calls[c].outcome = "accepted" =>
                \A k \in 1..Len(calls[c].before.geofences) :
                    LET gf == calls[c].before.geofences[k]
                    IN  gf.active =>
                            Cardinality(CrossingAlerts(c, gf.id)) =
                                IF Crosses(c, gf) THEN 1 ELSE 0


(***************************************************************************)
(* SpecSimulation: simulations of one equipment over routes of up to       *)
(* MaxRoute waypoints, started, started again and stopped, with a position *)
(* reported through AppService in between.  The timer fires as long as it  *)
(* is set, and the microtask queue is always drained.                      *)
(***************************************************************************)
Waypoints ==
    {Position(OnBoundary[1], OnBoundary[2], Inaccurate, 0),
     Position(Outside[1], Outside[2], Accurate, 0)}

Routes == UNION {[1..n -> Waypoints] : n \in 0..MaxRoute}

SimulationEquipment == {"FORKLIFT-001", "UNKNOWN-001"}

processPositionUpdateSimulation(equipmentId, position) ==
    /\ Cardinality({c \in 1..Len(calls) : ~Simulated(c)}) < MaxSimulationCalls
    /\ processPositionUpdate(equipmentId, position)

Fire == \E t \in timers : SimulationTick(t)

\* a request, as long as fewer than MaxSimulationLog have been made
Requested(request) == Len(opLog) < MaxSimulationLog /\ request

NextSimulation ==
    \/ Initialize
    \/ \E e \in SimulationEquipment : \E route \in Routes :
           Requested(simulateMovement(e, route))
    \/ Fire
    \/ RunMicrotask
    \/ Requested(stopSimulation("FORKLIFT-001"))
    \/ Requested(stopTracking("FORKLIFT-001"))
    \/ processPositionUpdateSimulation("FORKLIFT-001", Position(0, 1000, Inaccurate, 0))

SpecSimulation ==
    /\ Init
    /\ [][NextSimulation]_vars
    /\ WF_vars(Fire)
    /\ WF_vars(RunMicrotask)

\* the waypoints timer t has submitted, in the order it submitted them
SubmittedBy(t) == SelectSeq(submitted, LAMBDA w : w.timer = t)

\* the timers that were ever set
TimersSet == 1..(timerIdCounter - 1)

\* the intervals of an equipment that are running
TimersOf(e) == {t \in timers : t.equipmentId = e}

TimersAfter(e) == {t \in timers' : t.equipmentId = e}

\* at most one interval per equipment, and it is the one of the state; a
\* timer has submitted the first waypoints of its route, once each and in
\* order, as the calls show
SimulationSafe ==
    /\ \A e \in AllEquipment :
           /\ Cardinality(TimersOf(e)) <= 1
           /\ \A t \in TimersOf(e) : simulationInterval[e] = Some(t.id)
           /\ IsSome(simulationInterval[e]) => TimersOf(e) # {}
    /\ \A t \in TimersSet :
           \A n \in 1..Len(SubmittedBy(t)) : SubmittedBy(t)[n].index = n
    /\ \A t \in timers :
           \A n \in 1..Len(SubmittedBy(t.id)) :
               LET c == SubmittedBy(t.id)[n].call
               IN  /\ calls[c].equipmentId = t.equipmentId
                   /\ calls[c].position.x = t.route[n].x
                   /\ calls[c].position.y = t.route[n].y
                   /\ calls[c].position.accuracy = t.route[n].accuracy

\* a waypoint is submitted by a running interval only; an interval starts
\* running with a simulateMovement only; a timer that finds its route
\* finished has submitted all of it and leaves simulationInterval and
\* routeIndex undefined; after stopTracking and stopSimulation no interval
\* of the equipment is running
SimulationStep ==
    /\ Len(submitted') > Len(submitted) =>
           \E t \in timers : /\ t.id = submitted'[Len(submitted')].timer
                             /\ t.equipmentId = submitted'[Len(submitted')].equipmentId
    /\ ~(timers' \subseteq timers) => Answered("simulateMovement", "ok")
    /\ \A t \in timers :
           t.id \in completed' \ completed =>
               /\ Len(SubmittedBy(t.id)) = Len(t.route)
               /\ ~IsSome(simulationInterval'[t.equipmentId])
               /\ ~IsSome(routeIndex'[t.equipmentId])
               /\ TimersAfter(t.equipmentId) = {}
    /\ (Answered("stopTracking", "ok") \/ Answered("stopSimulation", "ok")) =>
           /\ TimersAfter(Answer.equipmentId) = {}
           /\ ~IsSome(simulationInterval'[Answer.equipmentId])

\* a running simulation stops, and unless a request ends it, by itself
SimulationStops ==
    \A t \in 1..MaxSimulationLog :
        (\E r \in timers : r.id = t) ~>
            (/\ ~ \E r \in timers : r.id = t
             /\ \/ t \in completed
                \/ \E n \in 1..Len(opLog) : opLog[n].op # "simulateMovement"
                \/ timerIdCounter > t + 1)

\* C30: at most one simulation timer per equipment at any moment, also
\* when simulateMovement is called again; the waypoints are submitted once
\* each and in route order; nothing is submitted after stopTracking or
\* stopSimulation; and with the timer firing as long as it is set, a
\* simulation stops by itself, its route submitted, simulationInterval and
\* routeIndex undefined.
C30_Simulation ==
    /\ []SimulationSafe
    /\ [][SimulationStep]_vars
    /\ SimulationStops

\* a simulation was started again while the first was running, and the
\* second has submitted its two waypoints and stopped by itself
C30_Witness ==
    /\ 2 \in completed
    /\ 1 \notin completed
    /\ Len(SubmittedBy(1)) = 1
    /\ Len(SubmittedBy(2)) = 2
    /\ timers = {}
    /\ ~IsSome(simulationInterval["FORKLIFT-001"])
    /\ ~IsSome(routeIndex["FORKLIFT-001"])

=============================================================================
